---- MODULE Spec2Model ----
(***************************************************************************)
(* Verification model of the HAM Network peer-to-peer overlay:             *)
(*   - ContributionProof   (custom_components/ham_network/p2p.py)          *)
(*   - P2PNode             (custom_components/ham_network/p2p.py)          *)
(*   - ShardedStorage      (HAMapp/custom_components/ham_network/sharding) *)
(*                                                                         *)
(* Four specifications share the variables below; each one animates the   *)
(* variables of its component and leaves the others at their initial       *)
(* value:                                                                  *)
(*   SpecProof  - generate / verify / is_contributing on one proof string  *)
(*   Spec       - a small network of P2PNode instances and their loops     *)
(*   SpecGate   - P2PNode instances answering requests of outside clients  *)
(*   SpecStore  - one ShardedStorage instance and its peers' answers       *)
(***************************************************************************)
EXTENDS Integers, Sequences, FiniteSets, TLC

VARIABLES
    now,        \* time.time(), in seconds
    ticks,      \* number of clock advances taken so far (bounds the run)
    proof,      \* SpecProof: the proof string under examination
    ptag,       \* SpecProof: how `proof` was produced
    pres,       \* SpecProof: outcome of the last verify / is_contributing call
    share,      \* Spec: P2PNode._share_data of every node
    peers,      \* Spec: P2PNode._peers of every node, in insertion order
    shared,     \* Spec: P2PNode._shared_traceroutes of every node
    count,      \* Spec: P2PNode._my_stats["traceroute_count"] of every node
    tokens,     \* Spec: P2PNode._mobile_tokens of every node
    net,        \* Spec: fire-and-forget POSTs in flight between nodes
    nextId,     \* Spec: next value secrets.token_hex / token_urlsafe returns
    nextOrigin, \* Spec: number of the next traceroute measurement submitted
    nextTok,    \* Spec: number of the next mobile token issued
    subs,       \* Spec: history of the submissions made so far
    resp,       \* Spec: the response a request handler has just produced
    node_id_int,          \* SpecStore: DHTRouter._node_id_int
    local_data,           \* SpecStore: ShardedStorage._local_data
    infrastructure_cache, \* SpecStore: ShardedStorage._infrastructure_cache
    peer_addresses,       \* SpecStore: ShardedStorage._peer_addresses (the ids)
    viewed_shards,        \* SpecStore: ShardedStorage._viewed_shards
    sres,                 \* SpecStore: what the last storage call returned
    nodes,          \* SpecDecay: NodeDecayManager._nodes
    infra_updates,  \* SpecDecay: ids given to update_node(id, True) so far
    dres,           \* SpecDecay: what the last decay-manager call returned
    ws_clients,     \* SpecWs: P2PNode._ws_clients of every node
    phase,  \* SpecLoops: where start() / stop() of each component stands
    running,  \* SpecLoops: the _running flag of each component
    server,  \* SpecLoops: the HTTP listener of the P2P node
    task, \* SpecLoops: every background loop task
    dht_sock,  \* SpecDht: BitTorrentDHT._socket
    dht_tid,  \* SpecDht: BitTorrentDHT._transaction_id
    dht_pending,  \* SpecDht: BitTorrentDHT._pending_queries
    dht_sent,  \* SpecDht: the queries written to the socket so far
    dht_call,  \* SpecDht: the get_peers and announce_peer calls in progress
    peers_found, \* SpecDht: BitTorrentDHT._peers_found
    disc_peers,  \* SpecDisc: AutoDiscovery._discovered_peers
    disc_cb,  \* SpecDisc: the calls of on_peer_discovered so far, per address
    disc,  \* SpecDisc: where the _discover coroutine stands
    ipfs_found, \* SpecDisc: IPFSDiscovery._peers_found
    ben,  \* SpecBencode: a value, its encoding and what decoding gave back
    geo, \* SpecGeo: a position, its cell and the neighbours computed for it
    sb_share,  \* SpecSubmit: P2PNode._share_data
    sb_peers,  \* SpecSubmit: P2PNode._peers, with whether each entry is stale
    sb_cached,  \* SpecSubmit: the ids in P2PNode._shared_traceroutes
    sb_items,  \* SpecSubmit: the items held by the sharded storage
    sb_listener,  \* SpecSubmit: the ids given to on_traceroute_received
    sb_posts,  \* SpecSubmit: the POSTs to /p2p/broadcast attempted so far
    sb_last, \* SpecSubmit: the last submission and how it ended
    contact, \* SpecStale: when node X last heard from, or first learned of, each peer id
    sy_share,  \* SpecSync: the node's sharing switch
    sy_peers,  \* SpecSync: the node's peer table, in insertion order
    sy_traces,  \* SpecSync: the node's shared-trace set
    sy_last, \* SpecSync: what the last data-sync iteration did
    g_port,  \* SpecGossip: the port the server is bound to (0 before start)
    g_peers,  \* SpecGossip: the peer table of node X, in insertion order
    g_round,  \* SpecGossip: what the last gossip round did
    g_selected, \* SpecGossip: the peers some round has contacted
    my_geohash,  \* SpecShards: the storage's own geohash
    my_shards, \* SpecShards: the shard responsibilities, by prefix
    sq_peers,  \* SpecQuery: the peer addresses each storage was given
    sq_chain,  \* SpecQuery: the shard-query handlers that are running, the outermost first
    sq_sent, \* SpecQuery: the remote queries sent for the current region query
    wl_list,  \* SpecLive: self._ws_clients as the list it is
    wl_handlers,  \* SpecLive: the connections whose handler is running
    wl_tasks,  \* SpecLive: the broadcasts that are running
    wl_failed,  \* SpecLive: the removals that raised ValueError
    wl_removed  \* SpecLive: how often each connection was removed

proofVars == <<proof, ptag, pres>>
nodeVars == <<share, peers, shared, count, tokens, net, nextId, nextOrigin,
              nextTok, subs, resp>>
storeVars == <<node_id_int, local_data, infrastructure_cache, peer_addresses,
               viewed_shards, sres>>
decayVars == <<nodes, infra_updates, dres>>
wsVars == <<ws_clients>>
loopVars == <<phase, running, server, task>>
dhtVars == <<dht_sock, dht_tid, dht_pending, dht_sent, dht_call, peers_found>>
discVars == <<disc_peers, disc_cb, disc, ipfs_found>>
pureVars == <<ben, geo>>
submitVars == <<sb_share, sb_peers, sb_cached, sb_items, sb_listener, sb_posts, sb_last>>
staleVars == <<contact>>
syncVars == <<sy_share, sy_peers, sy_traces, sy_last>>
gossipVars == <<g_port, g_peers, g_round, g_selected>>
shardVars == <<my_geohash, my_shards>>
queryVars == <<sq_peers, sq_chain, sq_sent>>
liveVars == <<wl_list, wl_handlers, wl_tasks, wl_failed, wl_removed>>
vars == <<now, ticks, proof, ptag, pres, share, peers, shared, count, tokens,
          net, nextId, nextOrigin, nextTok, subs, resp, node_id_int, local_data,
          infrastructure_cache, peer_addresses, viewed_shards, sres, nodes,
          infra_updates, dres, ws_clients, phase, running, server, task, dht_sock,
          dht_tid, dht_pending, dht_sent, dht_call, peers_found,
          disc_peers, disc_cb, disc, ipfs_found, ben, geo, sb_share, sb_peers,
          sb_cached, sb_items, sb_listener, sb_posts, sb_last, contact, sy_share,
          sy_peers, sy_traces, sy_last, g_port, g_peers, g_round, g_selected,
          my_geohash, my_shards, sq_peers, sq_chain, sq_sent, wl_list, wl_handlers, wl_tasks, wl_failed, wl_removed>>

(***************************************************************************)
(* Bounds of the model.                                                    *)
(***************************************************************************)
MaxProofTicks == 2
SigLen == 2

(***************************************************************************)
(* Program constants.                                                      *)
(***************************************************************************)
PROOF_MAX_AGE == 86400
SECONDS_PER_HOUR == 3600

\* The wall clock starts well past one day after the epoch, as time.time() does.
StartTime == PROOF_MAX_AGE + PROOF_MAX_AGE

\* The clock advances by one of these amounts (seconds).
TickSteps == {1, 86400}

(***************************************************************************)
(* ContributionProof                                                       *)
(*                                                                         *)
(* A proof string is "<proof_string>|<signature>".  It is modelled by the  *)
(* result of proof.rsplit("|", 1):                                         *)
(*   sep     - whether the string contains a "|" at all                    *)
(*   payload - what json.loads makes of the part before the last "|"       *)
(*   sig     - the part after the last "|", a sequence of hex digits       *)
(* A payload is                                                            *)
(*   kind = "garbage" : not JSON (json.loads raises JSONDecodeError)       *)
(*   kind = "nonobj"  : JSON, but not an object (a number, list, string)   *)
(*   kind = "obj"     : a JSON object; each field is a number, NoKey when  *)
(*                      the key is absent, or NotNum for a non-number      *)
(***************************************************************************)
\* Field sentinels (real field values are naturals).
NoKey == 0 - 1
NotNum == 0 - 2
HexDigits == 0 .. 3

PeerIds == {"X", "Y"}
Nonces == {0, 1}

\* hashlib.sha256(peer_id.encode()).hexdigest()[:16]: one-way tag of the id.
PeerIdHash(peer_id) == IF peer_id = "X" THEN 7 ELSE 11

FieldNum(v) == v + 2

PayloadNum(p) ==
    IF p.kind = "garbage" THEN 1
    ELSE IF p.kind = "nonobj" THEN 2
    ELSE 3 + FieldNum(p.tr) + 3 * FieldNum(p.ts) + 5 * FieldNum(p.up)
           + 7 * FieldNum(p.idh) + 11 * FieldNum(p.nonce)

\* hashlib.sha256(proof_string.encode()).hexdigest()[:32]: a deterministic
\* digest of the payload text, SigLen hex digits long.
Sha32(p) ==
    [i \in 1 .. SigLen |->
        (PayloadNum(p) \div (4 ^ (i - 1))) % 4]

Obj(idh, tr, up, ts, nonce) ==
    [kind |-> "obj", idh |-> idh, tr |-> tr, up |-> up, ts |-> ts, nonce |-> nonce]

Garbage == [kind |-> "garbage", idh |-> NoKey, tr |-> NoKey, up |-> NoKey,
            ts |-> NoKey, nonce |-> NoKey]
NonObj == [kind |-> "nonobj", idh |-> NoKey, tr |-> NoKey, up |-> NoKey,
           ts |-> NoKey, nonce |-> NoKey]

\* ContributionProof.generate
Generate(peer_id, stats, t, nonce) ==
    LET proof_data == Obj(PeerIdHash(peer_id),
                          stats.traceroute_count,
                          stats.uptime_seconds \div SECONDS_PER_HOUR,
                          t,
                          nonce)
    IN [sep |-> TRUE, payload |-> proof_data, sig |-> Sha32(proof_data)]

\* Outcomes of verify: (is_valid, proof_data), or an exception that escapes.
VInvalid == [valid |-> FALSE, data |-> Garbage, raised |-> "none"]
VValid(d) == [valid |-> TRUE, data |-> d, raised |-> "none"]
VRaised(e) == [valid |-> FALSE, data |-> Garbage, raised |-> e]

\* A variant of verify that skips the signature comparison.
VerifyNoSignature(p, t) ==
    IF ~p.sep THEN VInvalid
    ELSE IF p.payload.kind = "garbage" THEN VInvalid
    ELSE IF p.payload.kind = "nonobj" THEN VRaised("AttributeError")
    ELSE LET ts == IF p.payload.ts = NoKey THEN 0 ELSE p.payload.ts
         IN IF ts = NotNum THEN VRaised("TypeError")
            ELSE IF t - ts > PROOF_MAX_AGE THEN VInvalid
            ELSE VValid(p.payload)

\* ContributionProof.verify
Verify(p, t) ==
    IF ~p.sep THEN VInvalid                               \* unpack: ValueError, caught
    ELSE IF p.sig # Sha32(p.payload) THEN VInvalid
    ELSE IF p.payload.kind = "garbage" THEN VInvalid       \* JSONDecodeError, caught
    ELSE IF p.payload.kind = "nonobj" THEN VRaised("AttributeError")
    ELSE LET ts == IF p.payload.ts = NoKey THEN 0 ELSE p.payload.ts
         IN IF ts = NotNum THEN VRaised("TypeError")
            ELSE IF t - ts > PROOF_MAX_AGE THEN VInvalid
            ELSE VValid(p.payload)

\* Outcomes of is_contributing: a boolean, or an exception that escapes.
CResult(b) == [result |-> b, raised |-> "none"]
CRaised(e) == [result |-> FALSE, raised |-> e]

\* A variant of is_contributing that compares with > instead of >=.
IsContributingStrict(p, min_traceroutes, t) ==
    LET v == Verify(p, t)
    IN IF v.raised # "none" THEN CRaised(v.raised)
       ELSE IF ~v.valid THEN CResult(FALSE)
       ELSE LET tr == IF v.data.tr = NoKey THEN 0 ELSE v.data.tr
            IN IF tr = NotNum THEN CRaised("TypeError")
               ELSE CResult(tr > min_traceroutes)

\* ContributionProof.is_contributing
\* (`not data` never holds for a valid proof here: a payload that verifies
\*  carries at least its timestamp key, since a missing timestamp reads as 0.)
IsContributing(p, min_traceroutes, t) ==
    LET v == Verify(p, t)
    IN IF v.raised # "none" THEN CRaised(v.raised)
       ELSE IF ~v.valid THEN CResult(FALSE)
       ELSE LET tr == IF v.data.tr = NoKey THEN 0 ELSE v.data.tr
            IN IF tr = NotNum THEN CRaised("TypeError")
               ELSE CResult(tr >= min_traceroutes)

(***************************************************************************)
(* SpecProof: one proof string, produced by generate, by altering one      *)
(* character of a generated signature, or written by hand; the clock       *)
(* advances; verify and is_contributing are applied to it.                 *)
(***************************************************************************)
TracerouteCounts == {0, 1, 5}
UptimeValues == {7200}
MinCounts == {0, 1, 2}

StatsInputs ==
    [traceroute_count : TracerouteCounts, uptime_seconds : UptimeValues]

\* Hand-written proof strings: every shape verify has to cope with.
ForgedPayloads(t) ==
    {Garbage, NonObj}
    \cup {Obj(NoKey, tr, NoKey, ts, NoKey) :
            tr \in {NoKey, NotNum, 0, 1},
            ts \in {NoKey, NotNum, t, t - PROOF_MAX_AGE - 1}}

ForgedProofs(t) ==
    {[sep |-> s, payload |-> pl, sig |-> Sha32(pl)] :
        s \in BOOLEAN, pl \in ForgedPayloads(t)}
    \cup {[sep |-> TRUE, payload |-> Garbage, sig |-> <<>>]}

NoProof == [sep |-> FALSE, payload |-> Garbage, sig |-> <<>>]

NoCall == [op |-> "none", valid |-> FALSE, result |-> FALSE, raised |-> "none",
           min |-> 0]

ProofInit ==
    /\ proof = NoProof
    /\ ptag = "none"
    /\ pres = NoCall

PGenerate(peer_id, stats, nonce) ==
    /\ proof' = Generate(peer_id, stats, now, nonce)
    /\ ptag' = "generated"
    /\ pres' = NoCall
    /\ UNCHANGED <<now, ticks>>
    /\ UNCHANGED <<nodeVars, storeVars, decayVars, wsVars, loopVars, dhtVars, discVars, pureVars, submitVars, staleVars, syncVars, gossipVars, shardVars, queryVars, liveVars>>

\* Replace character i of the signature of a generated proof by another digit.
PTamper(i, d) ==
    /\ ptag = "generated"
    /\ i \in 1 .. Len(proof.sig)
    /\ d # proof.sig[i]
    /\ proof' = [proof EXCEPT !.sig[i] = d]
    /\ ptag' = "tampered"
    /\ pres' = NoCall
    /\ UNCHANGED <<now, ticks>>
    /\ UNCHANGED <<nodeVars, storeVars, decayVars, wsVars, loopVars, dhtVars, discVars, pureVars, submitVars, staleVars, syncVars, gossipVars, shardVars, queryVars, liveVars>>

PForge(p) ==
    /\ proof' = p
    /\ ptag' = "forged"
    /\ pres' = NoCall
    /\ UNCHANGED <<now, ticks>>
    /\ UNCHANGED <<nodeVars, storeVars, decayVars, wsVars, loopVars, dhtVars, discVars, pureVars, submitVars, staleVars, syncVars, gossipVars, shardVars, queryVars, liveVars>>

PTick(d) ==
    /\ ticks < MaxProofTicks
    /\ now' = now + d
    /\ ticks' = ticks + 1
    /\ pres' = NoCall
    /\ UNCHANGED <<proof, ptag>>
    /\ UNCHANGED <<nodeVars, storeVars, decayVars, wsVars, loopVars, dhtVars, discVars, pureVars, submitVars, staleVars, syncVars, gossipVars, shardVars, queryVars, liveVars>>

PVerify ==
    /\ ptag # "none"
    /\ LET v == Verify(proof, now)
       IN pres' = [op |-> "verify", valid |-> v.valid, result |-> FALSE,
                   raised |-> v.raised, min |-> 0]
    /\ UNCHANGED <<now, ticks, proof, ptag>>
    /\ UNCHANGED <<nodeVars, storeVars, decayVars, wsVars, loopVars, dhtVars, discVars, pureVars, submitVars, staleVars, syncVars, gossipVars, shardVars, queryVars, liveVars>>

PIsContributing(min_traceroutes) ==
    /\ ptag # "none"
    /\ LET c == IsContributing(proof, min_traceroutes, now)
       IN pres' = [op |-> "contrib", valid |-> Verify(proof, now).valid,
                   result |-> c.result, raised |-> c.raised,
                   min |-> min_traceroutes]
    /\ UNCHANGED <<now, ticks, proof, ptag>>
    /\ UNCHANGED <<nodeVars, storeVars, decayVars, wsVars, loopVars, dhtVars, discVars, pureVars, submitVars, staleVars, syncVars, gossipVars, shardVars, queryVars, liveVars>>

NextProof ==
    \/ \E id \in PeerIds, st \in StatsInputs, n \in Nonces : PGenerate(id, st, n)
    \/ \E i \in 1 .. SigLen, d \in HexDigits : PTamper(i, d)
    \/ \E p \in ForgedProofs(now) : PForge(p)
    \/ \E d \in TickSteps : PTick(d)
    \/ PVerify
    \/ \E m \in MinCounts : PIsContributing(m)

(***************************************************************************)
(* Claims about ContributionProof, checked under SpecProof.                *)
(***************************************************************************)

\* C6: verify(generate(id, counters)) is valid when checked at the time of
\* generation; a generated proof with one signature character changed is
\* invalid; and a proof whose timestamp lies more than 24 hours before the
\* time of verification is invalid.
C6_VerifyGenerated ==
    pres.op = "verify" =>
        /\ (ptag = "generated" /\ now = proof.payload.ts) => pres.valid
        /\ ptag = "tampered" => ~pres.valid
        /\ (/\ proof.payload.kind = "obj"
            /\ proof.payload.ts >= 0
            /\ now - proof.payload.ts > PROOF_MAX_AGE) => ~pres.valid

C6_Witness ==
    /\ pres.op = "verify"
    /\ ptag = "generated"
    /\ now = proof.payload.ts
    /\ pres.valid

\* C7: verify and is_contributing never raise: whatever the proof string,
\* the call returns (invalid / not contributing) instead of letting an
\* exception escape.
C7_NeverRaises ==
    pres.op # "none" => pres.raised = "none"

\* C8: is_contributing(proof, min) is true exactly when the proof verifies
\* and its traceroutes counter (0 when the key is missing) is a number
\* >= min; a fresh proof generated from traceroute_count = 0 fails
\* is_contributing(proof, 1) and one generated from 5 passes.
C8_IsContributingIff ==
    pres.op = "contrib" =>
        LET tr == IF proof.payload.tr = NoKey THEN 0 ELSE proof.payload.tr
        IN /\ pres.result <=> (pres.valid /\ tr # NotNum /\ tr >= pres.min)
           /\ (ptag = "generated" /\ now = proof.payload.ts /\ pres.min = 1) =>
                /\ proof.payload.tr = 0 => ~pres.result
                /\ proof.payload.tr = 5 => pres.result

C8_Witness ==
    /\ pres.op = "contrib"
    /\ ptag = "generated"
    /\ now = proof.payload.ts
    /\ proof.payload.tr = 5
    /\ pres.min = 1
    /\ pres.result

(***************************************************************************)
(* P2PNode: a network of nodes.                                            *)
(*                                                                         *)
(* A traceroute measurement handed to submit_traceroute or to the mobile   *)
(* bridge is identified by its `origin` number (history only: the program  *)
(* has no such field); the traceroute_id the program draws for a           *)
(* SharedTraceroute is `tid`.                                              *)
(*                                                                         *)
(* Handlers run one at a time on the event loop.  A handler that answers   *)
(* a request leaves its response in `resp`; the response is handed over    *)
(* (Respond) before the next handler runs.                                 *)
(***************************************************************************)
Node == PeerIds

\* The node whose user submits measurements and pairs a phone.
Submitters == {"X"}

MaxSubmits == 1
MaxTraceIds == 2
MaxNodeTicks == 1
MaxTokens == 1

P2P_PEER_TIMEOUT == 600
P2P_GOSSIP_INTERVAL == 60
P2P_DHT_REPLICATION == 3
GOSSIP_FANOUT == 5
SYNC_FANOUT == 5
SYNC_INTERVAL == 300
TRACEROUTE_MAX_AGE == 86400
MOBILE_TOKEN_TTL == 86400 * 30

NodeTickSteps == {700, 86400}

\* Shapes of one enriched hop, as _store_and_broadcast_traceroute reads it:
\*   null_geo  : "geo" is present and null (a hop that did not answer)
\*   no_coords : "geo" is absent or has no latitude/longitude
\*   transient : located, and classify_infrastructure says not permanent
\*   permanent : located, and classify_infrastructure says permanent
HopLists == {<<>>, <<"null_geo">>, <<"no_coords", "transient">>, <<"permanent">>}

\* The hop loop of _store_and_broadcast_traceroute.  A null "geo" makes
\* geo.get raise AttributeError.  The first located hop is handed to
\* ShardedStorage.store: a permanent one goes to the infrastructure cache; a
\* transient one passes should_store (the node never calls update_peers, so
\* total_nodes = 1 <= replication) and store calls _on_sharded_data_received,
\* whose SharedTraceroute.from_dict(hop) raises KeyError('source_peer_id').
RECURSIVE HopScan(_)
HopScan(hops) ==
    IF hops = <<>> THEN "none"
    ELSE IF Head(hops) = "null_geo" THEN "AttributeError"
    ELSE IF Head(hops) = "no_coords" THEN HopScan(Tail(hops))
    ELSE IF Head(hops) = "transient" THEN "KeyError"
    ELSE "stored"

HopScanRaises(hops) == HopScan(hops) \in {"AttributeError", "KeyError"}

\* P2PPeer.is_stale
IsStale(peer, t) == t - peer.last_seen > P2P_PEER_TIMEOUT

Range(seq) == {seq[i] : i \in 1 .. Len(seq)}
Prefix(seq, k) == SubSeq(seq, 1, IF Len(seq) < k THEN Len(seq) ELSE k)
PeerIdsOf(tbl) == {e.peer_id : e \in Range(tbl)}
NonStale(tbl, t) == SelectSeq(tbl, LAMBDA e : ~IsStale(e, t))

\* P2PNode._update_peer.  `data` is an announcement (no last_seen key) or an
\* entry of a peer list (last_seen as the sender knew it).
UpdatePeer(tbl, self, data, t) ==
    IF data.peer_id = self THEN tbl
    ELSE IF data.peer_id \notin PeerIdsOf(tbl)
         THEN Append(tbl, [peer_id |-> data.peer_id,
                           last_seen |-> IF data.last_seen = NoKey THEN t
                                         ELSE data.last_seen])
         ELSE [i \in 1 .. Len(tbl) |->
                 IF tbl[i].peer_id = data.peer_id
                 THEN [tbl[i] EXCEPT !.last_seen = t] ELSE tbl[i]]

RECURSIVE UpdatePeers(_, _, _, _)
UpdatePeers(tbl, self, list, t) ==
    IF list = <<>> THEN tbl
    ELSE UpdatePeers(UpdatePeer(tbl, self, Head(list), t), self, Tail(list), t)

\* dict assignment self._shared_traceroutes[tid] = traceroute
PutTrace(set, tr) == {x \in set : x.tid # tr.tid} \cup {tr}

\* P2PNode._cleanup_old_traceroutes
CleanupOld(set, t) == {x \in set : x.ts > t - TRACEROUTE_MAX_AGE}

\* P2PNode._generate_contribution_proof
MyProof(n) ==
    Generate(n, [traceroute_count |-> count[n], uptime_seconds |-> 0], now, 0)

\* P2PNode._get_my_announcement
MyAnnouncement(n) ==
    [peer_id |-> n, last_seen |-> NoKey, contribution_proof |-> MyProof(n)]

Msg(kind, from, to, tid, origin, src, ts, hops, target) ==
    [kind |-> kind, from |-> from, to |-> to, tid |-> tid, origin |-> origin,
     src |-> src, ts |-> ts, hops |-> hops, target |-> target]

\* P2PNode._broadcast_to_peers: the POSTs it sends.
BroadcastToPeers(n, tr) ==
    IF peers[n] = <<>> \/ ~share[n] THEN {}
    ELSE {Msg("broadcast", n, e.peer_id, tr.tid, tr.origin, tr.src, tr.ts,
              tr.hops, FALSE) : e \in {x \in Range(peers[n]) : ~IsStale(x, now)}}

\* P2PNode._store_and_broadcast_traceroute: the node's trace set afterwards,
\* the POSTs sent, and whether an exception escaped.
StoreAndBroadcast(n, tr) ==
    [shared |-> PutTrace(shared[n], tr),
     raised |-> HopScanRaises(tr.hops),
     sent   |-> IF HopScanRaises(tr.hops) THEN {} ELSE BroadcastToPeers(n, tr)]

\* The "legacy" loop closing submit_traceroute: POST /p2p/traceroute to the
\* first P2P_DHT_REPLICATION peers.
LegacyPush(n, origin, has_target, hops) ==
    {Msg("traceroute", n, e.peer_id, 0, origin, n, 0, hops, has_target) :
        e \in Range(Prefix(peers[n], P2P_DHT_REPLICATION))}

NoResp == [kind |-> "none", by |-> "", node |-> "", proof |-> NoProof,
           status |-> 0, traces |-> {}, peers |-> {}, token |-> 0]

NodeInit ==
    /\ share = [n \in Node |-> FALSE]
    /\ peers = [n \in Node |-> <<>>]
    /\ shared = [n \in Node |-> {}]
    /\ count = [n \in Node |-> 0]
    /\ tokens = [n \in Node |-> {}]
    /\ net = {}
    /\ nextId = 1
    /\ nextOrigin = 1
    /\ nextTok = 1
    /\ subs = {}
    /\ resp = NoResp
    /\ ws_clients = [n \in Node |-> {}]

\* The peers that, when n submits, share data as n does and hold n in their
\* peer table while n holds them (history, for the submission record).
Audience(n) ==
    {m \in Node \ {n} :
        /\ share[n] /\ share[m]
        /\ \E e \in Range(peers[n]) : e.peer_id = m /\ ~IsStale(e, now)
        /\ \E e \in Range(peers[m]) : e.peer_id = n /\ ~IsStale(e, now)}

\* P2PNode.set_sharing_enabled
SetSharing(n, enabled) ==
    /\ resp = NoResp
    /\ share[n] # enabled
    /\ share' = [share EXCEPT ![n] = enabled]
    /\ subs' = IF enabled
               THEN {[s EXCEPT !.private = IF s.node = n THEN FALSE ELSE @] :
                        s \in subs}
               ELSE {[s EXCEPT !.audience = IF s.node = n THEN {} ELSE @ \ {n}] :
                        s \in subs}
    /\ UNCHANGED <<proofVars, storeVars, decayVars, wsVars, loopVars, dhtVars, discVars, pureVars, submitVars, staleVars, syncVars, gossipVars, shardVars, queryVars, liveVars>>
    /\ UNCHANGED <<now, ticks, peers, shared, count, tokens, net, nextId, nextOrigin,
                   nextTok, resp>>

\* A variant of the test below that creates the SharedTraceroute always.
SubmitSharesAlways(n) == TRUE

\* submit_traceroute's test `if self._share_data:` before it creates the
\* SharedTraceroute.
SubmitShares(n) == share[n]

\* P2PNode.submit_traceroute
SubmitTraceroute(n, has_target, hops) ==
    /\ resp = NoResp
    /\ nextOrigin <= MaxSubmits
    /\ SubmitShares(n) => nextId <= MaxTraceIds
    /\ LET tr == [tid |-> nextId, origin |-> nextOrigin, src |-> n, ts |-> now,
                  hops |-> hops]
           sb == StoreAndBroadcast(n, tr)
       IN /\ count' = [count EXCEPT ![n] = IF has_target THEN @ + 1 ELSE @]
          /\ IF SubmitShares(n)
             THEN /\ shared' = [shared EXCEPT ![n] = sb.shared]
                  /\ nextId' = nextId + 1
                  /\ net' = net \cup sb.sent
                             \cup (IF sb.raised THEN {}
                                   ELSE LegacyPush(n, nextOrigin, has_target, hops))
             ELSE /\ UNCHANGED <<shared, nextId>>
                  /\ net' = net \cup LegacyPush(n, nextOrigin, has_target, hops)
          /\ subs' = subs \cup {[origin |-> nextOrigin, node |-> n, via |-> "local",
                                 private |-> ~share[n],
                                 tid |-> IF SubmitShares(n) THEN nextId ELSE 0,
                                 audience |-> Audience(n)]}
    /\ nextOrigin' = nextOrigin + 1
    /\ UNCHANGED <<proofVars, storeVars, decayVars, wsVars, loopVars, dhtVars, discVars, pureVars, submitVars, staleVars, syncVars, gossipVars, shardVars, queryVars, liveVars>>
    /\ UNCHANGED <<now, ticks, share, peers, tokens, nextTok, resp>>

\* P2PNode._handle_traceroute_result, on delivery of a legacy push
HandleTracerouteResult(m) ==
    /\ resp = NoResp
    /\ m \in net /\ m.kind = "traceroute"
    /\ share[m.to] => nextId <= MaxTraceIds
    /\ LET n == m.to
           tr == [tid |-> nextId, origin |-> m.origin, src |-> m.src, ts |-> now,
                  hops |-> m.hops]
           sb == StoreAndBroadcast(n, tr)
       IN /\ count' = [count EXCEPT ![n] = IF m.target THEN @ + 1 ELSE @]
          /\ IF share[n]
             THEN /\ shared' = [shared EXCEPT ![n] = sb.shared]
                  /\ nextId' = nextId + 1
                  /\ net' = (net \ {m}) \cup sb.sent
             ELSE /\ UNCHANGED <<shared, nextId>>
                  /\ net' = net \ {m}
    /\ UNCHANGED <<proofVars, storeVars, decayVars, wsVars, loopVars, dhtVars, discVars, pureVars, submitVars, staleVars, syncVars, gossipVars, shardVars, queryVars, liveVars>>
    /\ UNCHANGED <<now, ticks, share, peers, tokens, nextOrigin, nextTok, subs, resp>>

\* P2PNode._handle_broadcast, on delivery of a broadcast
HandleBroadcast(m) ==
    /\ resp = NoResp
    /\ m \in net /\ m.kind = "broadcast"
    /\ shared' = [shared EXCEPT ![m.to] =
            IF ~share[m.to] THEN @
            ELSE PutTrace(@, [tid |-> m.tid, origin |-> m.origin, src |-> m.src,
                              ts |-> m.ts, hops |-> m.hops])]
    /\ net' = net \ {m}
    /\ UNCHANGED <<proofVars, storeVars, decayVars, wsVars, loopVars, dhtVars, discVars, pureVars, submitVars, staleVars, syncVars, gossipVars, shardVars, queryVars, liveVars>>
    /\ UNCHANGED <<now, ticks, share, peers, count, tokens, nextId, nextOrigin,
                   nextTok, subs, resp>>

\* A POST that times out or is refused: the sender swallows the exception.
\* (History: the receiver was not reachable for that measurement.)
PostFails(m) ==
    /\ resp = NoResp
    /\ m \in net
    /\ net' = net \ {m}
    /\ subs' = {[s EXCEPT !.audience = IF s.origin = m.origin THEN @ \ {m.to} ELSE @] :
                    s \in subs}
    /\ UNCHANGED <<proofVars, storeVars, decayVars, wsVars, loopVars, dhtVars, discVars, pureVars, submitVars, staleVars, syncVars, gossipVars, shardVars, queryVars, liveVars>>
    /\ UNCHANGED <<now, ticks, share, peers, shared, count, tokens, nextId,
                   nextOrigin, nextTok, resp>>

\* A variant of the full-sync handler without the contribution gate.
FullSyncResponseUngated(n, prf) ==
    [status |-> 200, traces |-> CleanupOld(shared[n], now),
     after |-> CleanupOld(shared[n], now)]

\* P2PNode._handle_full_sync: the response, and the node's trace set after it.
FullSyncResponse(n, prf) ==
    LET c == IsContributing(prf, 1, now)
    IN IF c.raised # "none"
       THEN [status |-> 500, traces |-> {}, after |-> shared[n]]
       ELSE IF ~c.result
       THEN [status |-> 200, traces |-> {}, after |-> shared[n]]
       ELSE [status |-> 200, traces |-> CleanupOld(shared[n], now),
             after |-> CleanupOld(shared[n], now)]

\* P2PNode._handle_get_peers, answered from peer table `tbl`
GetPeersResponse(tbl, prf) ==
    LET c == IsContributing(prf, 1, now)
    IN IF c.raised # "none" THEN [status |-> 500, peers |-> <<>>]
       ELSE IF ~c.result THEN [status |-> 200, peers |-> <<>>]
       ELSE [status |-> 200, peers |-> NonStale(tbl, now)]

\* The proof strings a client outside the model may put in the
\* X-Contribution-Proof header or the proof query parameter: none, a correct
\* digest over a JSON number, fresh proofs of 0 and of 1 traceroutes, and an
\* expired proof of 5 traceroutes.
ClientStats(k) == [traceroute_count |-> k, uptime_seconds |-> 0]
ClientProofs ==
    {NoProof,
     [sep |-> TRUE, payload |-> NonObj, sig |-> Sha32(NonObj)],
     Generate("client", ClientStats(0), now, 0),
     Generate("client", ClientStats(1), now, 0),
     Generate("client", ClientStats(5), now - PROOF_MAX_AGE - 1, 0)}

\* GET /p2p/sync from a client outside the model
ExtFullSync(n, prf) ==
    /\ resp = NoResp
    /\ LET r == FullSyncResponse(n, prf)
       IN /\ shared' = [shared EXCEPT ![n] = r.after]
          /\ resp' = [kind |-> "sync", by |-> "client", node |-> n, proof |-> prf,
                      status |-> r.status, traces |-> r.traces, peers |-> {}, token |-> 0]
    /\ UNCHANGED <<proofVars, storeVars, decayVars, wsVars, loopVars, dhtVars, discVars, pureVars, submitVars, staleVars, syncVars, gossipVars, shardVars, queryVars, liveVars>>
    /\ UNCHANGED <<now, ticks, share, peers, count, tokens, net, nextId,
                   nextOrigin, nextTok, subs>>

\* GET /p2p/peers from a client outside the model
ExtGetPeers(n, prf) ==
    /\ resp = NoResp
    /\ LET r == GetPeersResponse(peers[n], prf)
       IN resp' = [kind |-> "peers", by |-> "client", node |-> n, proof |-> prf,
                   status |-> r.status, traces |-> {}, peers |-> Range(r.peers), token |-> 0]
    /\ UNCHANGED <<proofVars, storeVars, decayVars, wsVars, loopVars, dhtVars, discVars, pureVars, submitVars, staleVars, syncVars, gossipVars, shardVars, queryVars, liveVars>>
    /\ UNCHANGED <<now, ticks, share, peers, shared, count, tokens, net, nextId,
                   nextOrigin, nextTok, subs>>

\* P2PNode._handle_websocket up to the "initial" message
WsConnect(n, prf) ==
    /\ resp = NoResp
    /\ LET c == IsContributing(prf, 1, now)
           r == [kind |-> "ws", by |-> "client", node |-> n, proof |-> prf,
                 status |-> 200, traces |-> {}, peers |-> {}, token |-> 0]
       IN resp' = IF c.raised # "none" THEN [r EXCEPT !.status = 500]
                  ELSE IF ~c.result THEN r
                  ELSE [r EXCEPT !.traces = shared[n],
                                 !.peers = Range(NonStale(peers[n], now))]
    /\ UNCHANGED <<proofVars, storeVars, decayVars, wsVars, loopVars, dhtVars, discVars, pureVars, submitVars, staleVars, syncVars, gossipVars, shardVars, queryVars, liveVars>>
    /\ UNCHANGED <<now, ticks, share, peers, shared, count, tokens, net, nextId,
                   nextOrigin, nextTok, subs>>

\* The response of the last request is handed to the requester.
Respond ==
    /\ resp # NoResp
    /\ resp' = NoResp
    /\ UNCHANGED <<proofVars, storeVars, decayVars, wsVars, loopVars, dhtVars, discVars, pureVars, submitVars, staleVars, syncVars, gossipVars, shardVars, queryVars, liveVars>>
    /\ UNCHANGED <<now, ticks, share, peers, shared, count, tokens, net, nextId,
                   nextOrigin, nextTok, subs>>

\* One iteration of P2PNode._data_sync_loop: request_full_sync, then
\* _cleanup_old_traceroutes.  Candidate k is the first one to answer with
\* status 200 (k = 0: every candidate fails).
DataSync(n, k) ==
    /\ resp = NoResp
    /\ share[n]
    /\ peers[n] # <<>>
    /\ LET cands == NonStale(Prefix(peers[n], SYNC_FANOUT), now)
       IN /\ k \in 0 .. Len(cands)
          /\ IF k = 0
             THEN /\ shared' = [shared EXCEPT ![n] = CleanupOld(@, now)]
                  /\ shared'[n] # shared[n]
                  /\ resp' = NoResp
             ELSE LET p == cands[k].peer_id
                      r == FullSyncResponse(p, MyProof(n))
                      have == {x.tid : x \in shared[n]}
                      merged == shared[n] \cup {x \in r.traces : x.tid \notin have}
                  IN /\ r.status = 200
                     /\ shared' = [shared EXCEPT ![p] = r.after,
                                                 ![n] = CleanupOld(merged, now)]
                     /\ resp' = [kind |-> "sync", by |-> n, node |-> p,
                                 proof |-> MyProof(n), status |-> r.status,
                                 traces |-> r.traces, peers |-> {}, token |-> 0]
    /\ UNCHANGED <<proofVars, storeVars, decayVars, wsVars, loopVars, dhtVars, discVars, pureVars, submitVars, staleVars, syncVars, gossipVars, shardVars, queryVars, liveVars>>
    /\ UNCHANGED <<now, ticks, share, peers, count, tokens, net, nextId,
                   nextOrigin, nextTok, subs>>

\* P2PNode._request_peers: n's table after pulling p's peer list.
RequestPeers(tbl, n, ptbl) ==
    UpdatePeers(tbl, n, GetPeersResponse(ptbl, MyProof(n)).peers, now)

\* One iteration of the loop of P2PNode._gossip whose announce is answered:
\* the i-th peer handles the announcement (_handle_announce), this node
\* refreshes its entry and pulls the peer's list.
Gossip(n, i) ==
    /\ resp = NoResp
    /\ i \in 1 .. Len(Prefix(peers[n], GOSSIP_FANOUT))
    /\ LET p == peers[n][i].peer_id
           ptbl == UpdatePeer(peers[p], p, MyAnnouncement(n), now)
           mine == [peers[n] EXCEPT ![i].last_seen = now]
       IN peers' = [peers EXCEPT ![p] = ptbl, ![n] = RequestPeers(mine, n, ptbl)]
    /\ UNCHANGED <<proofVars, storeVars, decayVars, wsVars, loopVars, dhtVars, discVars, pureVars, submitVars, staleVars, syncVars, gossipVars, shardVars, queryVars, liveVars>>
    /\ UNCHANGED <<now, ticks, share, shared, count, tokens, net, nextId,
                   nextOrigin, nextTok, subs, resp>>

\* A variant of GossipPullFails that drops the peer whose list was not had.
GossipPullFailsEvicts(n, i) ==
    /\ resp = NoResp
    /\ i \in 1 .. Len(Prefix(peers[n], GOSSIP_FANOUT))
    /\ peers' = [peers EXCEPT ![n] = SelectSeq(@, LAMBDA e : e.peer_id # peers[n][i].peer_id)]
    /\ UNCHANGED <<proofVars, storeVars, decayVars, wsVars, loopVars, dhtVars, discVars, pureVars, submitVars, staleVars, syncVars, gossipVars, shardVars, queryVars, liveVars>>
    /\ UNCHANGED <<now, ticks, share, shared, count, tokens, net, nextId,
                   nextOrigin, nextTok, subs, resp>>

\* One iteration of the loop of P2PNode._gossip whose announce is answered
\* with 200 while the GET /p2p/peers of _request_peers fails or times out.
GossipPullFails(n, i) ==
    /\ resp = NoResp
    /\ i \in 1 .. Len(Prefix(peers[n], GOSSIP_FANOUT))
    /\ LET p == peers[n][i].peer_id
           ptbl == UpdatePeer(peers[p], p, MyAnnouncement(n), now)
           mine == [peers[n] EXCEPT ![i].last_seen = now]
       IN peers' = [peers EXCEPT ![p] = ptbl, ![n] = mine]
    /\ UNCHANGED <<proofVars, storeVars, decayVars, wsVars, loopVars, dhtVars, discVars, pureVars, submitVars, staleVars, syncVars, gossipVars, shardVars, queryVars, liveVars>>
    /\ UNCHANGED <<now, ticks, share, shared, count, tokens, net, nextId,
                   nextOrigin, nextTok, subs, resp>>

\* One iteration of the loop of P2PNode._gossip whose POST /p2p/announce
\* raises, times out or is answered with another status than 200.
GossipFails(n, i) ==
    /\ resp = NoResp
    /\ i \in 1 .. Len(Prefix(peers[n], GOSSIP_FANOUT))
    /\ UNCHANGED <<proofVars, storeVars, decayVars, wsVars, loopVars, dhtVars, discVars, pureVars, submitVars, staleVars, syncVars, gossipVars, shardVars, queryVars, liveVars>>
    /\ UNCHANGED <<now, ticks, share, peers, shared, count, tokens, net, nextId,
                   nextOrigin, nextTok, subs, resp>>

\* P2PNode._bootstrap / add_bootstrap_peer towards the address of node p
Bootstrap(n, p) ==
    /\ resp = NoResp
    /\ p # n
    /\ LET ptbl == UpdatePeer(peers[p], p, MyAnnouncement(n), now)
       IN peers' = [peers EXCEPT ![p] = ptbl, ![n] = RequestPeers(peers[n], n, ptbl)]
    /\ peers' # peers
    /\ UNCHANGED <<proofVars, storeVars, decayVars, wsVars, loopVars, dhtVars, discVars, pureVars, submitVars, staleVars, syncVars, gossipVars, shardVars, queryVars, liveVars>>
    /\ UNCHANGED <<now, ticks, share, shared, count, tokens, net, nextId,
                   nextOrigin, nextTok, subs, resp>>

\* P2PNode._remove_stale_peers (one pass of the maintenance loop); the slot
\* holds the entries handed to the on_peer_lost callback.
RemoveStalePeers(n) ==
    /\ resp = NoResp
    /\ \E e \in Range(peers[n]) : IsStale(e, now)
    /\ peers' = [peers EXCEPT ![n] = NonStale(@, now)]
    /\ resp' = [NoResp EXCEPT !.kind = "peer_lost", !.by = n, !.node = n,
                              !.peers = {e \in Range(peers[n]) : IsStale(e, now)}]
    /\ UNCHANGED <<proofVars, storeVars, decayVars, wsVars, loopVars, dhtVars, discVars, pureVars, submitVars, staleVars, syncVars, gossipVars, shardVars, queryVars, liveVars>>
    /\ UNCHANGED <<now, ticks, share, shared, count, tokens, net, nextId,
                   nextOrigin, nextTok, subs>>

MobilePeerId(k) == IF k = 1 THEN "mobile_1" ELSE "mobile_2"

\* P2PNode._handle_mobile_register with an Authorization header
MobileRegister(n) ==
    /\ resp = NoResp
    /\ nextTok <= MaxTokens
    /\ tokens' = [tokens EXCEPT ![n] = @ \cup
                    {[tok |-> nextTok, peer_id |-> MobilePeerId(nextTok),
                      expires |-> now + MOBILE_TOKEN_TTL]}]
    /\ nextTok' = nextTok + 1
    /\ UNCHANGED <<proofVars, storeVars, decayVars, wsVars, loopVars, dhtVars, discVars, pureVars, submitVars, staleVars, syncVars, gossipVars, shardVars, queryVars, liveVars>>
    /\ UNCHANGED <<now, ticks, share, peers, shared, count, net, nextId,
                   nextOrigin, subs, resp>>

\* P2PNode._handle_mobile_traceroute with X-Mobile-Token = tok
MobileTraceroute(n, tok, hops) ==
    /\ resp = NoResp
    /\ nextOrigin <= MaxSubmits
    /\ nextId <= MaxTraceIds
    /\ LET r == [NoResp EXCEPT !.kind = "mobile", !.by = "mobile", !.node = n,
                               !.token = tok]
       IN IF \A t \in tokens[n] : t.tok # tok
          THEN /\ resp' = [r EXCEPT !.status = 401]
               /\ UNCHANGED <<shared, tokens, net, nextId, nextOrigin, subs>>
          ELSE LET td == CHOOSE t \in tokens[n] : t.tok = tok
                   tr == [tid |-> nextId, origin |-> nextOrigin, src |-> td.peer_id,
                          ts |-> now, hops |-> hops]
                   sb == StoreAndBroadcast(n, tr)
               IN IF now > td.expires
                  THEN /\ tokens' = [tokens EXCEPT ![n] = @ \ {td}]
                       /\ resp' = [r EXCEPT !.status = 401]
                       /\ UNCHANGED <<shared, net, nextId, nextOrigin, subs>>
                  ELSE /\ IF share[n]
                          THEN /\ shared' = [shared EXCEPT ![n] = sb.shared]
                               /\ net' = net \cup sb.sent
                               /\ resp' = [r EXCEPT !.status =
                                             IF sb.raised THEN 500 ELSE 200]
                          ELSE /\ shared' = [shared EXCEPT ![n] = PutTrace(@, tr)]
                               /\ net' = net
                               /\ resp' = [r EXCEPT !.status = 200]
                       /\ nextId' = nextId + 1
                       /\ nextOrigin' = nextOrigin + 1
                       /\ subs' = subs \cup {[origin |-> nextOrigin, node |-> n,
                                              via |-> "mobile", private |-> ~share[n],
                                              tid |-> nextId, audience |-> {}]}
                       /\ UNCHANGED tokens
    /\ UNCHANGED <<proofVars, storeVars, decayVars, wsVars, loopVars, dhtVars, discVars, pureVars, submitVars, staleVars, syncVars, gossipVars, shardVars, queryVars, liveVars>>
    /\ UNCHANGED <<now, ticks, share, peers, count, nextTok>>

\* P2PNode._handle_mobile_status: status and "recent_traceroutes"
MobileStatusResponse(n, tok) ==
    IF \A t \in tokens[n] : t.tok # tok
    THEN [status |-> 401, traces |-> {}]
    ELSE LET td == CHOOSE t \in tokens[n] : t.tok = tok
         IN [status |-> 200, traces |-> {x \in shared[n] : x.src = td.peer_id}]

\* P2PNode._handle_mobile_status with X-Mobile-Token = tok
MobileStatus(n, tok) ==
    /\ resp = NoResp
    /\ LET r == MobileStatusResponse(n, tok)
       IN resp' = [NoResp EXCEPT !.kind = "mobile_status", !.by = "mobile",
                                 !.node = n, !.token = tok,
                                 !.status = r.status, !.traces = r.traces]
    /\ UNCHANGED <<proofVars, storeVars, decayVars, wsVars, loopVars, dhtVars, discVars, pureVars, submitVars, staleVars, syncVars, gossipVars, shardVars, queryVars, liveVars>>
    /\ UNCHANGED <<now, ticks, share, peers, shared, count, tokens, net, nextId,
                   nextOrigin, nextTok, subs>>

\* The clock advances.
NodeTick(d) ==
    /\ resp = NoResp
    /\ ticks < MaxNodeTicks
    /\ now' = now + d
    /\ ticks' = ticks + 1
    /\ UNCHANGED <<proofVars, storeVars, decayVars, wsVars, loopVars, dhtVars, discVars, pureVars, submitVars, staleVars, syncVars, gossipVars, shardVars, queryVars, liveVars>>
    /\ UNCHANGED <<share, peers, shared, count, tokens, net, nextId, nextOrigin,
                   nextTok, subs, resp>>

\* The network of nodes with its background loops.
Next ==
    \/ \E n \in Node, b \in BOOLEAN : SetSharing(n, b)
    \/ \E n \in Submitters, tg \in BOOLEAN, h \in HopLists : SubmitTraceroute(n, tg, h)
    \/ \E m \in net : HandleTracerouteResult(m)
    \/ \E m \in net : HandleBroadcast(m)
    \/ \E m \in net : PostFails(m)
    \/ \E n \in Node, k \in 0 .. SYNC_FANOUT : DataSync(n, k)
    \/ \E n \in Node, i \in 1 .. GOSSIP_FANOUT : Gossip(n, i)
    \/ \E n \in Node, i \in 1 .. GOSSIP_FANOUT : GossipPullFails(n, i)
    \/ \E n \in Node, i \in 1 .. GOSSIP_FANOUT : GossipFails(n, i)
    \/ \E n \in Node, p \in Node : Bootstrap(n, p)
    \/ \E n \in Node : RemoveStalePeers(n)
    \/ \E n \in Submitters : MobileRegister(n)
    \/ \E n \in Submitters, tok \in 1 .. MaxTokens, h \in HopLists :
            MobileTraceroute(n, tok, h)
    \/ Respond
    \/ \E d \in NodeTickSteps : NodeTick(d)

\* The nodes as servers of clients outside the model.
GateHopLists == {<<>>, <<"null_geo">>}
GateTickSteps == {86400}

NextGate ==
    \/ \E n \in Node, b \in BOOLEAN : SetSharing(n, b)
    \/ \E n \in Submitters, h \in GateHopLists : SubmitTraceroute(n, TRUE, h)
    \/ \E m \in net : HandleTracerouteResult(m)
    \/ \E m \in net : HandleBroadcast(m)
    \/ \E n \in Node, p \in Node : Bootstrap(n, p)
    \/ \E n \in Submitters : MobileRegister(n)
    \/ \E n \in Submitters, tok \in 1 .. MaxTokens, h \in GateHopLists :
            MobileTraceroute(n, tok, h)
    \/ \E n \in Node, prf \in ClientProofs : ExtFullSync(n, prf)
    \/ \E n \in Node, prf \in ClientProofs : ExtGetPeers(n, prf)
    \/ \E n \in Node, prf \in ClientProofs : WsConnect(n, prf)
    \/ Respond
    \/ \E d \in GateTickSteps : NodeTick(d)


\* A phone paired with a node: registration, submissions and status calls
\* over a time span longer than the lifetime of a token.
MobileTickSteps == {MOBILE_TOKEN_TTL, MOBILE_TOKEN_TTL + 1}

NextMobile ==
    \/ \E n \in Submitters, b \in BOOLEAN : SetSharing(n, b)
    \/ \E n \in Submitters : MobileRegister(n)
    \/ \E n \in Submitters, tok \in 1 .. MaxTokens + 1, h \in GateHopLists :
            MobileTraceroute(n, tok, h)
    \/ \E n \in Submitters, tok \in 1 .. MaxTokens + 1 : MobileStatus(n, tok)
    \/ Respond
    \/ \E d \in MobileTickSteps : NodeTick(d)
(***************************************************************************)
(* Claims about the sharing gate and the contribution gate of P2PNode.     *)
(***************************************************************************)

\* C1: while a node's sharing flag is disabled, submit_traceroute sends no
\* message carrying the submitted measurement to any peer: no message in
\* flight comes from a local submission made with sharing disabled.
C1_NoPushWhileDisabled ==
    \A m \in net :
        ~(\E s \in subs : /\ s.via = "local"
                          /\ s.private
                          /\ s.node = m.from
                          /\ s.origin = m.origin)

\* C2: after a node with sharing disabled has submitted a measurement
\* locally, and for as long as its sharing stays disabled, no full-sync
\* response of that node, whatever the requester's proof, contains it.
C2_DisabledSubmitNotSynced ==
    resp.kind = "sync" =>
        \A s \in subs :
            (s.via = "local" /\ s.private /\ s.node = resp.node) =>
                \A x \in resp.traces : x.origin # s.origin

C2_Witness ==
    /\ resp.kind = "sync"
    /\ resp.status = 200
    /\ IsContributing(resp.proof, 1, now).result
    /\ \E s \in subs : s.via = "local" /\ s.private /\ s.node = resp.node

\* C3: a measurement accepted through the mobile bridge while sharing is
\* disabled is returned by no full-sync response and no WebSocket "initial"
\* snapshot of that node for as long as its sharing stays disabled.
C3_MobileGated ==
    resp.kind \in {"sync", "ws"} =>
        \A s \in subs :
            (s.via = "mobile" /\ s.private /\ s.node = resp.node
                /\ ~share[resp.node]) =>
                \A x \in resp.traces : x.origin # s.origin

\* C4: X and Y share data and held each other as fresh peers when X
\* submitted, and every message about the measurement was delivered.  Once
\* a gossip interval and a sync interval have passed, Y and X have gossiped
\* again and Y's data-sync iteration has just pulled from X, Y's
\* shared-trace set contains X's trace id.
C4_ScenarioA ==
    \A s \in subs : \A y \in s.audience :
        (/\ s.via = "local" /\ s.tid # 0
         /\ share[s.node] /\ share[y]
         /\ net = {}
         /\ \E x \in shared[s.node] :
                /\ x.tid = s.tid
                /\ now >= x.ts + P2P_GOSSIP_INTERVAL + SYNC_INTERVAL
                /\ \E e \in Range(peers[y]) :
                      e.peer_id = s.node /\ e.last_seen >= x.ts + P2P_GOSSIP_INTERVAL
                /\ \E e \in Range(peers[s.node]) :
                      e.peer_id = y /\ e.last_seen >= x.ts + P2P_GOSSIP_INTERVAL
         /\ resp.kind = "sync" /\ resp.by = y /\ resp.node = s.node
         /\ resp.status = 200)
        => s.tid \in {x.tid : x \in shared[y]}

\* C5: a peers response or a full-sync response carries peer or trace
\* records only if the requester's proof verifies and shows at least one
\* traceroute; every other requester gets no record.
C5_ProofGating ==
    resp.kind \in {"peers", "sync"} =>
        ((resp.traces # {} \/ resp.peers # {}) =>
            /\ Verify(resp.proof, now).valid
            /\ resp.proof.payload.tr >= 1)

C5_Witness ==
    /\ resp.kind = "sync"
    /\ resp.by = "client"
    /\ shared[resp.node] # {}
    /\ ~Verify(resp.proof, now).valid
    /\ resp.traces = {}


\* C17: the only step that takes an entry out of a node's peer table is the
\* maintenance pass (_remove_stale_peers), and every entry it takes out is
\* stale at that moment; a failed or timed-out gossip, sync or broadcast
\* leaves every peer table as it was, and a failed peer-list pull leaves the
\* table of the pulling node with the same entries.
C17_EvictionOnlyWhenStale ==
    [][/\ \A n \in Node : \A e \in Range(peers[n]) :
             e.peer_id \notin PeerIdsOf(peers'[n])
                => IsStale(e, now) /\ RemoveStalePeers(n)
       /\ (\/ \E m \in net : PostFails(m)
           \/ \E n \in Node : DataSync(n, 0)
           \/ \E n \in Node, i \in 1 .. GOSSIP_FANOUT : GossipFails(n, i))
             => peers' = peers
       /\ \A n \in Node :
             (\E i \in 1 .. GOSSIP_FANOUT : GossipPullFails(n, i))
                => PeerIdsOf(peers'[n]) = PeerIdsOf(peers[n])]_vars

C17_Witness ==
    /\ resp.kind = "peer_lost"
    /\ resp.peers # {}
    /\ \E n \in Node : n # resp.node /\ resp.node \in PeerIdsOf(peers[n])
    /\ net # {}

\* C19: a mobile-bridge call (traceroute submission or status) made with a
\* token that is unknown or past its expiry time is answered with 401,
\* stores no trace and returns no history; a call is accepted only with a
\* token registered on the node and not later than 30 days after its
\* registration.
C19_TokenChecked ==
    resp.kind \in {"mobile", "mobile_status"} =>
        LET bad == \A t \in tokens[resp.node] :
                       t.tok # resp.token \/ now > t.expires
        IN /\ bad => /\ resp.status = 401
                     /\ resp.traces = {}
                     /\ \A x \in shared[resp.node] :
                           x.src = MobilePeerId(resp.token) => x.ts < now
           /\ resp.status = 200 =>
                 \E t \in tokens[resp.node] :
                    /\ t.tok = resp.token
                    /\ now <= t.expires
                    /\ t.expires <= now + MOBILE_TOKEN_TTL
(***************************************************************************)
(* ShardedStorage: one storage instance (no on_data_received callback),    *)
(* its DHTRouter, and the answers of the peers it queries.                 *)
(*                                                                         *)
(* A geohash is a sequence of characters (here digits); sha256 is a        *)
(* deterministic map into 0 .. HashSpace - 1.                              *)
(***************************************************************************)
MaxStoreTicks == 1
HashBits == 4

GEOHASH_PRECISION_REGION == 3
DEFAULT_TTL == 86400
FETCH_THRESHOLD == 10
FETCH_FANOUT == 3

HashSpace == 2 ^ HashBits
StoreTickSteps == {DEFAULT_TTL + 1}

DataTypes == {"traceroute", "infrastructure", "cell_tower"}
GlobalPrefix == <<0>>

Item(id, ty, geohash, replication, permanent, t) ==
    [data_id |-> id, data_type |-> ty, geohash |-> geohash, timestamp |-> t,
     ttl |-> DEFAULT_TTL, replication_factor |-> replication,
     is_permanent |-> permanent]

NoItem == Item(0, "none", <<>>, 0, FALSE, 0)

\* The items handed to store and sent by peers, stamped with time t.
Catalogue(t) ==
    {Item(1, "traceroute", <<1, 1>>, 1, FALSE, t),
     Item(2, "traceroute", <<2, 1>>, 3, FALSE, t),
     Item(1, "infrastructure", <<2, 1>>, 1, FALSE, t),
     Item(3, "cell_tower", <<1, 2>>, 3, FALSE, t),
     Item(2, "traceroute", <<1, 1>>, 1, TRUE, t)}

DataIds == {1, 2, 3}
QueryPrefixes == {<<1>>, <<2, 1>>}
QueryTypes == {"any", "traceroute"}
NodeIdInts == {0, 9}
PeerTables == {{}, {1}, {1, 2}}

\* A variant of is_expired that reports every item as expired.
IsExpiredAlways(d, t) == TRUE

\* ShardedData.is_expired
IsExpired(d, t) == IF d.is_permanent THEN FALSE ELSE t > d.timestamp + d.ttl

\* ShardedData.shard_key: (geohash[:3] or "global", data type)
ShardKey(d) ==
    [prefix |-> IF d.geohash # <<>> THEN Prefix(d.geohash, GEOHASH_PRECISION_REGION)
                ELSE GlobalPrefix,
     type |-> d.data_type]

\* str.startswith
StartsWith(g, p) == Len(p) <= Len(g) /\ SubSeq(g, 1, Len(p)) = p

RECURSIVE GeoNum(_)
GeoNum(g) == IF g = <<>> THEN 0 ELSE Head(g) + 3 * GeoNum(Tail(g))

TypeNum(ty) ==
    IF ty = "traceroute" THEN 1
    ELSE IF ty = "infrastructure" THEN 2
    ELSE IF ty = "cell_tower" THEN 3
    ELSE 4

\* int(hashlib.sha256(key.encode()).hexdigest(), 16) of a shard key
KeyHash(k) == (7 * GeoNum(k.prefix) + 5 * TypeNum(k.type)) % HashSpace

\* int(hashlib.sha256(peer_id.encode()).hexdigest(), 16) of a peer id
PeerHash(p) == (11 * p + 3) % HashSpace

\* a ^ b on w-bit integers
RECURSIVE BitXor(_, _, _)
BitXor(a, b, w) ==
    IF w = 0 THEN 0
    ELSE (((a % 2) + (b % 2)) % 2) + 2 * BitXor(a \div 2, b \div 2, w - 1)

\* DHTRouter.get_distance
GetDistance(k) == BitXor(node_id_int, KeyHash(k), HashBits)

\* A variant of should_store without the small-network shortcut and with
\* the fraction inverted.
ShouldStoreInverted(k, total_nodes, replication) ==
    GetDistance(k) < (HashSpace * total_nodes) \div replication

\* DHTRouter.should_store
ShouldStore(k, total_nodes, replication) ==
    IF total_nodes <= replication THEN TRUE
    ELSE GetDistance(k) < (HashSpace * replication) \div total_nodes

\* sorted(all_peers, key=peer_distance): a stable sort, the peers being
\* listed in insertion (here: ascending) order.
RECURSIVE SortByDistance(_, _)
SortByDistance(ps, k) ==
    IF ps = {} THEN <<>>
    ELSE LET dist(p) == BitXor(PeerHash(p), KeyHash(k), HashBits)
             best == CHOOSE p \in ps :
                        \A q \in ps : dist(p) < dist(q)
                                      \/ (dist(p) = dist(q) /\ p <= q)
         IN <<best>> \o SortByDistance(ps \ {best}, k)

\* A variant of get_responsible_nodes that keeps one peer too many.
GetResponsibleNodesLong(k, all_peers, replication) ==
    Prefix(SortByDistance(all_peers, k), replication + 1)

\* DHTRouter.get_responsible_nodes
GetResponsibleNodes(k, all_peers, replication) ==
    Prefix(SortByDistance(all_peers, k), replication)

\* dict assignment d[item.data_id] = item
PutItem(set, item) == {x \in set : x.data_id # item.data_id} \cup {item}

\* A variant of store that asks the router for every item.
StoreOutcomeRouted(item, local, infra) ==
    IF ShouldStore(ShardKey(item), Cardinality(peer_addresses) + 1,
                   item.replication_factor)
    THEN IF item.is_permanent \/ item.data_type \in {"infrastructure", "cell_tower"}
         THEN [ok |-> TRUE, local |-> local, infra |-> PutItem(infra, item)]
         ELSE [ok |-> TRUE, local |-> PutItem(local, item), infra |-> infra]
    ELSE [ok |-> FALSE, local |-> local, infra |-> infra]

\* ShardedStorage.store: the return value and the two dicts afterwards
StoreOutcome(item, local, infra) ==
    IF item.is_permanent \/ item.data_type \in {"infrastructure", "cell_tower"}
    THEN [ok |-> TRUE, local |-> local, infra |-> PutItem(infra, item)]
    ELSE IF ShouldStore(ShardKey(item), Cardinality(peer_addresses) + 1,
                        item.replication_factor)
    THEN [ok |-> TRUE, local |-> PutItem(local, item), infra |-> infra]
    ELSE [ok |-> FALSE, local |-> local, infra |-> infra]

\* ShardedStorage.get: what it returns from the given dicts at time t
GetResult(id, local, infra, t) ==
    IF \E d \in infra : d.data_id = id
    THEN CHOOSE d \in infra : d.data_id = id
    ELSE IF \E d \in local : d.data_id = id /\ ~IsExpired(d, t)
    THEN CHOOSE d \in local : d.data_id = id
    ELSE NoItem

\* The answers a queried peer may give to GET /p2p/shard/query: an error,
\* or status 200 with a list of items.
PeerAnswers(t) ==
    {[status |-> 500, items |-> <<>>],
     [status |-> 200, items |-> <<Item(2, "traceroute", <<2, 1>>, 3, FALSE, t)>>],
     [status |-> 200, items |-> <<Item(1, "traceroute", <<1, 1>>, 1, FALSE, t),
                                  Item(3, "cell_tower", <<1, 2>>, 3, FALSE, t)>>]}

\* The loop of _fetch_from_network over the answers of the peers asked: it
\* stops at the first answer that leaves `results` non-empty.
RECURSIVE FetchLoop(_)
FetchLoop(answers) ==
    IF answers = <<>> THEN <<>>
    ELSE IF Head(answers).status = 200 /\ Head(answers).items # <<>>
    THEN Head(answers).items
    ELSE FetchLoop(Tail(answers))

\* The merge loop of get_by_geohash over the fetched items.
RECURSIVE MergeFetched(_, _)
MergeFetched(fetched, acc) ==
    IF fetched = <<>> THEN acc
    ELSE LET d == Head(fetched)
         IN IF d.data_id \in {r.data_id : r \in acc.results}
            THEN MergeFetched(Tail(fetched), acc)
            ELSE LET st == StoreOutcome(d, acc.local, acc.infra)
                 IN MergeFetched(Tail(fetched),
                                 [results |-> acc.results \cup {d},
                                  local |-> st.local, infra |-> st.infra])

NoResult == [op |-> "none", ok |-> FALSE, arg |-> NoItem, prefix |-> <<>>,
             type |-> "any", items |-> {}, count |-> 0, requests |-> 0,
             input |-> {}, nodes |-> <<>>]

StoreInit ==
    /\ node_id_int \in NodeIdInts
    /\ local_data = {}
    /\ infrastructure_cache = {}
    /\ peer_addresses = {}
    /\ viewed_shards = {}
    /\ sres = NoResult

\* ShardedStorage.update_peers
UpdatePeerAddresses(ps) ==
    /\ sres = NoResult
    /\ peer_addresses # ps
    /\ peer_addresses' = ps
    /\ UNCHANGED <<now, ticks, node_id_int, local_data, infrastructure_cache,
                   viewed_shards, sres>>
    /\ UNCHANGED <<proofVars, nodeVars, decayVars, wsVars, loopVars, dhtVars, discVars, pureVars, submitVars, staleVars, syncVars, gossipVars, shardVars, queryVars, liveVars>>

\* ShardedStorage.store
Store(item) ==
    /\ sres = NoResult
    /\ LET st == StoreOutcome(item, local_data, infrastructure_cache)
       IN /\ local_data' = st.local
          /\ infrastructure_cache' = st.infra
          /\ sres' = [NoResult EXCEPT !.op = "store", !.ok = st.ok, !.arg = item]
    /\ UNCHANGED <<now, ticks, node_id_int, peer_addresses, viewed_shards>>
    /\ UNCHANGED <<proofVars, nodeVars, decayVars, wsVars, loopVars, dhtVars, discVars, pureVars, submitVars, staleVars, syncVars, gossipVars, shardVars, queryVars, liveVars>>

\* ShardedStorage.get
Get(id) ==
    /\ sres = NoResult
    /\ LET r == GetResult(id, local_data, infrastructure_cache, now)
       IN /\ local_data' =
                IF \E d \in infrastructure_cache : d.data_id = id THEN local_data
                ELSE {d \in local_data : ~(d.data_id = id /\ IsExpired(d, now))}
          /\ sres' = [NoResult EXCEPT !.op = "get", !.ok = (r # NoItem), !.arg = r]
    /\ UNCHANGED <<now, ticks, node_id_int, infrastructure_cache, peer_addresses,
                   viewed_shards>>
    /\ UNCHANGED <<proofVars, nodeVars, decayVars, wsVars, loopVars, dhtVars, discVars, pureVars, submitVars, staleVars, syncVars, gossipVars, shardVars, queryVars, liveVars>>

\* The number of GET requests the loop of _fetch_from_network sends.
RECURSIVE FetchRequests(_)
FetchRequests(answers) ==
    IF answers = <<>> THEN 0
    ELSE IF Head(answers).status = 200 /\ Head(answers).items # <<>> THEN 1
    ELSE 1 + FetchRequests(Tail(answers))

\* The first part of get_by_geohash: expired local items are dropped, the
\* matching local and infrastructure items are collected.
LocalMatches(prefix, ty) ==
    LET matches(d) == /\ StartsWith(d.geohash, prefix)
                      /\ (ty = "any" \/ d.data_type = ty)
        live == {d \in local_data : ~IsExpired(d, now)}
        fromLocal == {d \in live : matches(d)}
        fromInfra == {d \in infrastructure_cache :
                        /\ matches(d)
                        /\ d.data_id \notin {r.data_id : r \in fromLocal}}
    IN [results |-> fromLocal \cup fromInfra, local |-> live,
        infra |-> infrastructure_cache]

\* A variant of the test below that goes to the network without known peers.
PeersAskedAlways(prefix, ty) == 1

\* The number of peers get_by_geohash asks through _fetch_from_network.
PeersAsked(prefix, ty) ==
    IF Cardinality(LocalMatches(prefix, ty).results) < FETCH_THRESHOLD
       /\ peer_addresses # {}
    THEN Len(Prefix(GetResponsibleNodes([prefix |-> prefix, type |-> ty],
                                        peer_addresses, 3), FETCH_FANOUT))
    ELSE 0

\* ShardedStorage.get_by_geohash; `answers` are the answers of the peers
\* _fetch_from_network asks, in the order it asks them.
GetByGeohash(prefix, ty, answers) ==
    /\ sres = NoResult
    /\ LET final == MergeFetched(FetchLoop(answers), LocalMatches(prefix, ty))
       IN /\ local_data' = final.local
          /\ infrastructure_cache' = final.infra
          /\ sres' = [NoResult EXCEPT !.op = "get_by_geohash", !.ok = TRUE,
                                      !.prefix = prefix, !.type = ty,
                                      !.items = final.results,
                                      !.requests = FetchRequests(answers)]
    /\ viewed_shards' = viewed_shards \cup {prefix}
    /\ UNCHANGED <<now, ticks, node_id_int, peer_addresses>>
    /\ UNCHANGED <<proofVars, nodeVars, decayVars, wsVars, loopVars, dhtVars, discVars, pureVars, submitVars, staleVars, syncVars, gossipVars, shardVars, queryVars, liveVars>>

\* ShardedStorage.cleanup_expired; it returns the number of removed items
CleanupExpired ==
    /\ sres = NoResult
    /\ local_data' = {d \in local_data : ~IsExpired(d, now)}
    /\ sres' = [NoResult EXCEPT !.op = "cleanup_expired", !.ok = TRUE,
                                !.count = Cardinality({d \in local_data :
                                                          IsExpired(d, now)})]
    /\ UNCHANGED <<now, ticks, node_id_int, infrastructure_cache, peer_addresses,
                   viewed_shards>>
    /\ UNCHANGED <<proofVars, nodeVars, decayVars, wsVars, loopVars, dhtVars, discVars, pureVars, submitVars, staleVars, syncVars, gossipVars, shardVars, queryVars, liveVars>>

\* The caller takes the value returned by the last call.
Return ==
    /\ sres # NoResult
    /\ sres' = NoResult
    /\ UNCHANGED <<now, ticks, node_id_int, local_data, infrastructure_cache,
                   peer_addresses, viewed_shards>>
    /\ UNCHANGED <<proofVars, nodeVars, decayVars, wsVars, loopVars, dhtVars, discVars, pureVars, submitVars, staleVars, syncVars, gossipVars, shardVars, queryVars, liveVars>>

\* The clock advances.
StoreTick(d) ==
    /\ sres = NoResult
    /\ ticks < MaxStoreTicks
    /\ now' = now + d
    /\ ticks' = ticks + 1
    /\ UNCHANGED storeVars
    /\ UNCHANGED <<proofVars, nodeVars, decayVars, wsVars, loopVars, dhtVars, discVars, pureVars, submitVars, staleVars, syncVars, gossipVars, shardVars, queryVars, liveVars>>

NextStore ==
    \/ \E ps \in PeerTables : UpdatePeerAddresses(ps)
    \/ \E item \in Catalogue(now) : Store(item)
    \/ \E id \in DataIds : Get(id)
    \/ \E p \in QueryPrefixes, ty \in QueryTypes :
            \E a \in [1 .. PeersAsked(p, ty) -> PeerAnswers(now)] :
                GetByGeohash(p, ty, a)
    \/ CleanupExpired
    \/ Return
    \/ \E d \in StoreTickSteps : StoreTick(d)

(***************************************************************************)
(* Claims about ShardedStorage, checked under SpecStore.                   *)
(***************************************************************************)

\* C9: get_by_geohash(prefix, type) returns no entry whose geohash does not
\* start with prefix, entries fetched from peers during the call included.
C9_PrefixOnly ==
    sres.op = "get_by_geohash" =>
        \A d \in sres.items : StartsWith(d.geohash, sres.prefix)

\* C10: store of an item that is permanent, or of type infrastructure or
\* cell_tower, returns True and leaves the item retrievable by
\* get(item.data_id), whatever the peer-table size, the replication factor
\* and the node id.
C10_PermanentStored ==
    (/\ sres.op = "store"
     /\ (sres.arg.is_permanent
         \/ sres.arg.data_type \in {"infrastructure", "cell_tower"}))
    => /\ sres.ok
       /\ GetResult(sres.arg.data_id, local_data, infrastructure_cache, now)
            = sres.arg

C10_Witness ==
    /\ sres.op = "store"
    /\ sres.arg.is_permanent
    /\ ~ShouldStore(ShardKey(sres.arg), Cardinality(peer_addresses) + 1,
                    sres.arg.replication_factor)
    /\ sres.ok
    /\ GetResult(sres.arg.data_id, local_data, infrastructure_cache, now) = sres.arg

\* C11: an id held in the infrastructure cache stays in it across every
\* step (cleanup_expired, get, get_by_geohash, store, the clock); and a
\* cleanup_expired call removes from the local data exactly the transient
\* entries whose timestamp + ttl has passed, returns their number, and
\* leaves the infrastructure cache as it was.
C11_PermanentNeverExpires ==
    [][/\ \A d \in infrastructure_cache :
            \E e \in infrastructure_cache' : e.data_id = d.data_id
       /\ sres'.op = "cleanup_expired" =>
            LET past == {d \in local_data :
                            ~d.is_permanent /\ now > d.timestamp + d.ttl}
            IN /\ local_data' = local_data \ past
               /\ infrastructure_cache' = infrastructure_cache
               /\ sres'.count = Cardinality(past)]_vars

C11_Witness ==
    /\ sres.op = "cleanup_expired"
    /\ sres.count > 0
    /\ \E d \in infrastructure_cache : now > d.timestamp + d.ttl

\* C12: get_by_geohash on a prefix for which the node holds no data, when
\* the node knows no peers, returns normally with an empty list and sends
\* no network request.
C12_ScenarioD ==
    (/\ sres.op = "get_by_geohash"
     /\ peer_addresses = {}
     /\ ~\E d \in local_data \cup infrastructure_cache :
            StartsWith(d.geohash, sres.prefix))
    => /\ sres.ok
       /\ sres.items = {}
       /\ sres.requests = 0

C12_Witness ==
    /\ sres.op = "get_by_geohash"
    /\ peer_addresses = {}
    /\ local_data # {}
    /\ ~\E d \in local_data \cup infrastructure_cache :
            StartsWith(d.geohash, sres.prefix)
    /\ sres.items = {}
    /\ sres.requests = 0

MaxRouterPeers == 4
MaxReplication == 3

RouterKeys ==
    [prefix : {GlobalPrefix, <<1>>, <<1, 2>>, <<2, 1>>},
     type : DataTypes \cup {"all"}]

RouterInit ==
    /\ node_id_int \in NodeIdInts
    /\ local_data = {}
    /\ infrastructure_cache = {}
    /\ peer_addresses = {}
    /\ viewed_shards = {}
    /\ sres = NoResult

\* A call of DHTRouter.get_responsible_nodes(shard_key, all_peers, replication)
ClosestNodes(k, all_peers, replication) ==
    /\ sres = NoResult
    /\ sres' = [NoResult EXCEPT !.op = "get_responsible_nodes", !.ok = TRUE,
                                !.prefix = k.prefix, !.type = k.type,
                                !.input = all_peers, !.count = replication,
                                !.nodes = GetResponsibleNodes(k, all_peers,
                                                              replication)]
    /\ UNCHANGED <<now, ticks, node_id_int, local_data, infrastructure_cache,
                   peer_addresses, viewed_shards>>
    /\ UNCHANGED <<proofVars, nodeVars, decayVars, wsVars, loopVars, dhtVars, discVars, pureVars, submitVars, staleVars, syncVars, gossipVars, shardVars, queryVars, liveVars>>

NextRouter ==
    \/ \E k \in RouterKeys, ps \in SUBSET (1 .. MaxRouterPeers),
          r \in 0 .. MaxReplication : ClosestNodes(k, ps, r)
    \/ Return

\* C14: get_responsible_nodes(shard_key, all_peers, replication) returns at
\* most `replication` peers, each an input peer and none twice, in order of
\* non-decreasing XOR distance between hash(peer id) and hash(shard_key),
\* and no input peer left out is strictly closer than a returned one.
C14_ClosestNodes ==
    sres.op = "get_responsible_nodes" =>
        LET k == [prefix |-> sres.prefix, type |-> sres.type]
            dist(p) == BitXor(PeerHash(p), KeyHash(k), HashBits)
            r == sres.nodes
        IN /\ Len(r) <= sres.count
           /\ Range(r) \subseteq sres.input
           /\ \A i, j \in 1 .. Len(r) : i < j => r[i] # r[j] /\ dist(r[i]) <= dist(r[j])
           /\ \A q \in sres.input \ Range(r), p \in Range(r) : ~(dist(q) < dist(p))

C14_Witness ==
    /\ sres.op = "get_responsible_nodes"
    /\ Cardinality(sres.input) > sres.count
    /\ sres.count >= 2
    /\ Len(sres.nodes) = sres.count
    /\ sres.nodes[1] > sres.nodes[2]

(***************************************************************************)
(* NodeDecay and NodeDecayManager.  A decay factor is a fraction of        *)
(* FULL_DECAY_TIME: the value FULL_DECAY_TIME stands for 1.0 and 0 for 0.0. *)
(***************************************************************************)
DECAY_START_AFTER == 300
FULL_DECAY_TIME == 3600
FullyVisible == FULL_DECAY_TIME

MaxDecayTicks == 3
DecayIds == {"a", "b"}
DecayTickSteps == {DECAY_START_AFTER, FULL_DECAY_TIME \div 2, FULL_DECAY_TIME}

Max(a, b) == IF a >= b THEN a ELSE b

NodeDecay(peer_id, last_seen, is_infrastructure) ==
    [peer_id |-> peer_id, last_seen |-> last_seen,
     is_infrastructure |-> is_infrastructure]

\* A variant of decay_factor whose decay starts at last_seen.
DecayFactorNoGrace(node, t) ==
    IF node.is_infrastructure THEN FullyVisible
    ELSE Max(0, FullyVisible - (t - node.last_seen))

\* NodeDecay.decay_factor at time t
DecayFactor(node, t) ==
    IF node.is_infrastructure THEN FullyVisible
    ELSE IF t - node.last_seen < DECAY_START_AFTER THEN FullyVisible
    ELSE Max(0, FullyVisible - ((t - node.last_seen) - DECAY_START_AFTER))

\* NodeDecay.should_remove
ShouldRemove(node, t) == DecayFactor(node, t) <= 0

NoDecayResult ==
    [op |-> "none", peer_id |-> "none", visible |-> {}, to_remove |-> {},
     factor |-> 0]

DecayInit ==
    /\ nodes = <<>>
    /\ infra_updates = {}
    /\ dres = NoDecayResult

\* NodeDecayManager.update_node
UpdateNode(peer_id, is_infrastructure) ==
    /\ dres = NoDecayResult
    /\ nodes' = IF peer_id \in DOMAIN nodes
                THEN [nodes EXCEPT ![peer_id].last_seen = now]
                ELSE [p \in DOMAIN nodes \cup {peer_id} |->
                        IF p = peer_id
                        THEN NodeDecay(peer_id, now, is_infrastructure)
                        ELSE nodes[p]]
    /\ infra_updates' = IF is_infrastructure
                        THEN infra_updates \cup {peer_id}
                        ELSE infra_updates
    /\ dres' = [NoDecayResult EXCEPT !.op = "update_node", !.peer_id = peer_id]
    /\ UNCHANGED <<now, ticks>>
    /\ UNCHANGED <<proofVars, nodeVars, storeVars, wsVars, loopVars, dhtVars, discVars, pureVars, submitVars, staleVars, syncVars, gossipVars, shardVars, queryVars, liveVars>>

\* NodeDecayManager.mark_infrastructure
MarkInfrastructure(peer_id) ==
    /\ dres = NoDecayResult
    /\ nodes' = IF peer_id \in DOMAIN nodes
                THEN [nodes EXCEPT ![peer_id].is_infrastructure = TRUE]
                ELSE nodes
    /\ dres' = [NoDecayResult EXCEPT !.op = "mark_infrastructure",
                                     !.peer_id = peer_id]
    /\ UNCHANGED <<now, ticks, infra_updates>>
    /\ UNCHANGED <<proofVars, nodeVars, storeVars, wsVars, loopVars, dhtVars, discVars, pureVars, submitVars, staleVars, syncVars, gossipVars, shardVars, queryVars, liveVars>>

\* NodeDecayManager.get_visible_nodes
GetVisibleNodes ==
    /\ dres = NoDecayResult
    /\ LET to_remove == {p \in DOMAIN nodes : ShouldRemove(nodes[p], now)}
           visible == {<<p, DecayFactor(nodes[p], now)>> :
                          p \in DOMAIN nodes \ to_remove}
       IN /\ nodes' = [p \in DOMAIN nodes \ to_remove |-> nodes[p]]
          /\ dres' = [NoDecayResult EXCEPT !.op = "get_visible_nodes",
                                           !.visible = visible,
                                           !.to_remove = to_remove]
    /\ UNCHANGED <<now, ticks, infra_updates>>
    /\ UNCHANGED <<proofVars, nodeVars, storeVars, wsVars, loopVars, dhtVars, discVars, pureVars, submitVars, staleVars, syncVars, gossipVars, shardVars, queryVars, liveVars>>

\* NodeDecayManager.get_decay_factor
GetDecayFactor(peer_id) ==
    /\ dres = NoDecayResult
    /\ dres' = [NoDecayResult EXCEPT !.op = "get_decay_factor",
                                     !.peer_id = peer_id,
                                     !.factor = IF peer_id \in DOMAIN nodes
                                                THEN DecayFactor(nodes[peer_id], now)
                                                ELSE 0]
    /\ UNCHANGED <<now, ticks, nodes, infra_updates>>
    /\ UNCHANGED <<proofVars, nodeVars, storeVars, wsVars, loopVars, dhtVars, discVars, pureVars, submitVars, staleVars, syncVars, gossipVars, shardVars, queryVars, liveVars>>

\* The caller takes the value returned by the last decay-manager call.
DecayReturn ==
    /\ dres # NoDecayResult
    /\ dres' = NoDecayResult
    /\ UNCHANGED <<now, ticks, nodes, infra_updates>>
    /\ UNCHANGED <<proofVars, nodeVars, storeVars, wsVars, loopVars, dhtVars, discVars, pureVars, submitVars, staleVars, syncVars, gossipVars, shardVars, queryVars, liveVars>>

\* The clock advances.
DecayTick(d) ==
    /\ dres = NoDecayResult
    /\ ticks < MaxDecayTicks
    /\ now' = now + d
    /\ ticks' = ticks + 1
    /\ UNCHANGED decayVars
    /\ UNCHANGED <<proofVars, nodeVars, storeVars, wsVars, loopVars, dhtVars, discVars, pureVars, submitVars, staleVars, syncVars, gossipVars, shardVars, queryVars, liveVars>>

NextDecay ==
    \/ \E p \in DecayIds, i \in BOOLEAN : UpdateNode(p, i)
    \/ \E p \in DecayIds : MarkInfrastructure(p)
    \/ GetVisibleNodes
    \/ \E p \in DecayIds : GetDecayFactor(p)
    \/ DecayReturn
    \/ \E d \in DecayTickSteps : DecayTick(d)

\* What C15 says of one state: a non-infrastructure node is fully visible
\* up to five minutes after its last update and has factor 0 once
\* DECAY_START_AFTER + FULL_DECAY_TIME have passed; what update_node has just
\* touched is fully visible; get_decay_factor returns the factor.
C15_StatePart ==
    /\ \A p \in DOMAIN nodes :
          ~nodes[p].is_infrastructure =>
             /\ (now - nodes[p].last_seen <= DECAY_START_AFTER
                    => DecayFactor(nodes[p], now) = FullyVisible)
             /\ (now - nodes[p].last_seen >= DECAY_START_AFTER + FULL_DECAY_TIME
                    => DecayFactor(nodes[p], now) = 0)
    /\ dres.op = "update_node" =>
          /\ dres.peer_id \in DOMAIN nodes
          /\ DecayFactor(nodes[dres.peer_id], now) = FullyVisible
    /\ (dres.op = "get_decay_factor" /\ dres.peer_id \in DOMAIN nodes) =>
          dres.factor = DecayFactor(nodes[dres.peer_id], now)

\* What C15 says of one step: without an update the factor of a
\* non-infrastructure node does not grow, and a get_visible_nodes call made
\* when the node's factor has reached 0 neither lists the node nor leaves it
\* in the manager.
C15_StepPart ==
    /\ \A p \in DOMAIN nodes \cap DOMAIN nodes' :
          (/\ ~nodes[p].is_infrastructure
           /\ ~nodes'[p].is_infrastructure
           /\ nodes'[p].last_seen = nodes[p].last_seen)
             => DecayFactor(nodes'[p], now') <= DecayFactor(nodes[p], now)
    /\ dres'.op = "get_visible_nodes" /\ dres.op = "none" =>
          \A p \in DOMAIN nodes :
             (/\ ~nodes[p].is_infrastructure
              /\ now - nodes[p].last_seen >= DECAY_START_AFTER + FULL_DECAY_TIME)
                => /\ p \notin DOMAIN nodes'
                   /\ \A v \in dres'.visible : v[1] # p

\* C15: for a non-infrastructure node decayFactor is 1.0 right after
\* updateNode and for the next 5 minutes, never grows while time advances
\* without an update, is 0 once 5 min + 60 min have passed since the last
\* update, and from then on getVisibleNodes() leaves the node out and has
\* purged it from the manager when it returns.
C15_DecaySchedule == [](C15_StatePart) /\ [][C15_StepPart]_vars

C15_Witness ==
    /\ dres.op = "get_visible_nodes"
    /\ dres.to_remove # {}
    /\ \E v \in dres.visible : v[2] > 0 /\ v[2] < FullyVisible
    /\ infra_updates = {}

\* C16: after any call updateNode(id, isInfrastructure=true), whether id was
\* unknown before or already tracked as a non-infrastructure node,
\* decayFactor(id) is 1.0 at every later time and id is never purged by
\* getVisibleNodes().
C16_InfrastructureStays ==
    \A p \in infra_updates :
       /\ p \in DOMAIN nodes
       /\ DecayFactor(nodes[p], now) = FullyVisible

(***************************************************************************)
(* P2PNode._update_peer with every field of a peer entry: node "X" takes   *)
(* announcements, pings and peer-list entries about peer ids.  "None" as a *)
(* string and NoKey as a number stand for a key that is absent or null.    *)
(***************************************************************************)
Receiver == "X"
PeerHosts == {"h1", "h2"}
PeerPorts == {8765, 9000}
PeerNames == {"None", "n1", "n2"}
PeerLatitudes == {NoKey, 0, 51}
PeerCounts == {NoKey, 3}

PeerLongitude(lat) == IF lat = NoKey THEN NoKey ELSE lat + 7

PeerData(id, host, port, name, lat, cnt, seen, prf) ==
    [peer_id |-> id, host |-> host, port |-> port, display_name |-> name,
     latitude |-> lat, longitude |-> PeerLongitude(lat),
     traceroute_count |-> cnt, last_seen |-> seen, contribution_proof |-> prf]

\* The updates a peer sends about itself (no last_seen key).
Announcements ==
    {PeerData(id, h, po, nm, lat, c, NoKey, prf) :
        id \in {"Y"}, h \in PeerHosts, po \in PeerPorts, nm \in PeerNames,
        lat \in PeerLatitudes, c \in PeerCounts,
        prf \in {NoProof,
                 Generate("Y", [traceroute_count |-> 3, uptime_seconds |-> 0],
                          now, 0)}}
        \cup {PeerData(Receiver, "h1", 8765, "n1", NoKey, NoKey, NoKey, NoProof)}

\* The entries of a peer list pulled from another node (P2PPeer.to_dict).
ListEntries ==
    {PeerData("Y", h, po, nm, lat, c, now, NoProof) :
        h \in PeerHosts, po \in PeerPorts, nm \in PeerNames,
        lat \in PeerLatitudes, c \in {0, 3}}

\* P2PPeer.from_dict
PeerFromDict(data, t) ==
    [peer_id |-> data.peer_id, host |-> data.host, port |-> data.port,
     display_name |-> data.display_name, latitude |-> data.latitude,
     longitude |-> data.longitude,
     last_seen |-> IF data.last_seen = NoKey THEN t ELSE data.last_seen,
     contribution_proof |-> data.contribution_proof,
     traceroute_count |-> IF data.traceroute_count = NoKey THEN 0
                          ELSE data.traceroute_count]

\* P2PNode._update_peer, every field
UpdatePeerFields(tbl, self, data, contribution_verified, t) ==
    IF data.peer_id = self THEN tbl
    ELSE IF data.peer_id \notin PeerIdsOf(tbl)
    THEN Append(tbl, PeerFromDict(data, t))
    ELSE [i \in 1 .. Len(tbl) |->
            IF tbl[i].peer_id # data.peer_id THEN tbl[i]
            ELSE [tbl[i] EXCEPT
                    !.last_seen = t,
                    !.display_name = IF data.display_name \notin {"None", ""}
                                     THEN data.display_name ELSE @,
                    !.latitude = IF data.latitude # NoKey THEN data.latitude ELSE @,
                    !.longitude = IF data.longitude # NoKey THEN data.longitude ELSE @,
                    !.contribution_proof = IF contribution_verified
                                           THEN data.contribution_proof ELSE @,
                    !.traceroute_count = IF data.traceroute_count # NoKey
                                         THEN data.traceroute_count ELSE @]]

\* P2PNode._handle_announce
HandleAnnounce(data) ==
    /\ resp = NoResp
    /\ LET c == IF data.contribution_proof = NoProof
                THEN [raised |-> "none", result |-> FALSE]
                ELSE IsContributing(data.contribution_proof, 1, now)
           r == [NoResp EXCEPT !.kind = "announce", !.by = data.peer_id,
                               !.node = Receiver, !.peers = {data},
                               !.proof = data.contribution_proof]
       IN IF c.raised # "none"
          THEN /\ resp' = [r EXCEPT !.status = 500]
               /\ peers' = peers
          ELSE /\ resp' = [r EXCEPT !.status = 200]
               /\ peers' = [peers EXCEPT ![Receiver] =
                              UpdatePeerFields(@, Receiver, data, c.result, now)]
    /\ UNCHANGED <<proofVars, storeVars, decayVars, wsVars, loopVars, dhtVars, discVars, pureVars, submitVars, staleVars, syncVars, gossipVars, shardVars, queryVars, liveVars>>
    /\ UNCHANGED <<now, ticks, share, shared, count, tokens, net, nextId,
                   nextOrigin, nextTok, subs>>

\* P2PNode._handle_ping
HandlePing(data) ==
    /\ resp = NoResp
    /\ resp' = [NoResp EXCEPT !.kind = "ping", !.by = data.peer_id,
                              !.node = Receiver, !.peers = {data},
                              !.status = 200]
    /\ peers' = [peers EXCEPT ![Receiver] =
                    UpdatePeerFields(@, Receiver, data, FALSE, now)]
    /\ UNCHANGED <<proofVars, storeVars, decayVars, wsVars, loopVars, dhtVars, discVars, pureVars, submitVars, staleVars, syncVars, gossipVars, shardVars, queryVars, liveVars>>
    /\ UNCHANGED <<now, ticks, share, shared, count, tokens, net, nextId,
                   nextOrigin, nextTok, subs>>

\* The loop body of P2PNode._request_peers for one entry of a pulled list
PulledEntry(data) ==
    /\ resp = NoResp
    /\ resp' = [NoResp EXCEPT !.kind = "peer_list", !.by = data.peer_id,
                              !.node = Receiver, !.peers = {data},
                              !.status = 200]
    /\ peers' = [peers EXCEPT ![Receiver] =
                    UpdatePeerFields(@, Receiver, data, FALSE, now)]
    /\ UNCHANGED <<proofVars, storeVars, decayVars, wsVars, loopVars, dhtVars, discVars, pureVars, submitVars, staleVars, syncVars, gossipVars, shardVars, queryVars, liveVars>>
    /\ UNCHANGED <<now, ticks, share, shared, count, tokens, net, nextId,
                   nextOrigin, nextTok, subs>>

NextPeer ==
    \/ \E data \in Announcements : HandleAnnounce(data)
    \/ \E data \in Announcements : HandlePing(data)
    \/ \E data \in ListEntries : PulledEntry(data)
    \/ Respond

\* C18: after any sequence of announce / ping / gossip updates for one peer
\* id the peer table holds exactly one entry for that id, and its address
\* (host, port), display name, location and stats are the values carried by
\* the most recent update (a field the update does not carry is not
\* compared).
C18_LastWriteWins ==
    (resp.kind \in {"announce", "ping", "peer_list"} /\ resp.status = 200) =>
        \A data \in resp.peers :
           data.peer_id # Receiver =>
              /\ Cardinality({i \in 1 .. Len(peers[Receiver]) :
                                peers[Receiver][i].peer_id = data.peer_id}) = 1
              /\ \A e \in Range(peers[Receiver]) :
                    e.peer_id = data.peer_id =>
                       /\ e.host = data.host
                       /\ e.port = data.port
                       /\ data.display_name # "None" => e.display_name = data.display_name
                       /\ data.latitude # NoKey => e.latitude = data.latitude
                       /\ data.longitude # NoKey => e.longitude = data.longitude
                       /\ data.traceroute_count # NoKey
                             => e.traceroute_count = data.traceroute_count

(***************************************************************************)
(* The live stream: WebSocket connections that stay open.  A connection is *)
(* the record of its number, the proof of its query string, the time at    *)
(* which it was opened, whether its "initial" message has been written,    *)
(* and the "initial" message built for it while the write is suspended.    *)
(***************************************************************************)
MaxWsClients == 2

NoSnapshot == [traces |-> {}, peers |-> {}]

WsConn(cid, prf, t) ==
    [cid |-> cid, proof |-> prf, at |-> t, initial |-> TRUE,
     pending |-> NoSnapshot]

\* A variant of the gate that lets every proof in that does not raise.
WsAdmittedAlways(prf, t) == TRUE

\* `ContributionProof.is_contributing(proof)` of _handle_websocket
WsAdmitted(prf, t) == IsContributing(prf, 1, t).result

\* P2PNode._handle_websocket up to the wait for client messages
WsOpen(n, cid, prf) ==
    /\ resp = NoResp
    /\ \A c \in ws_clients[n] : c.cid # cid
    /\ LET r == [NoResp EXCEPT !.by = "client", !.node = n, !.proof = prf,
                               !.token = cid]
       IN IF IsContributing(prf, 1, now).raised # "none"
          THEN /\ resp' = [r EXCEPT !.kind = "ws_raised", !.status = 500]
               /\ UNCHANGED ws_clients
          ELSE IF ~WsAdmitted(prf, now)
          THEN /\ resp' = [r EXCEPT !.kind = "ws_error"]
               /\ UNCHANGED ws_clients
          ELSE /\ ws_clients' = [ws_clients EXCEPT ![n] = @ \cup {WsConn(cid, prf, now)}]
               /\ resp' = [r EXCEPT !.kind = "ws_initial",
                                    !.traces = shared[n],
                                    !.peers = Range(NonStale(peers[n], now))]
    /\ UNCHANGED <<proofVars, storeVars, decayVars, loopVars, dhtVars, discVars, pureVars, submitVars, staleVars, syncVars, gossipVars, shardVars, queryVars, liveVars>>
    /\ UNCHANGED <<now, ticks, share, peers, shared, count, tokens, net, nextId,
                   nextOrigin, nextTok, subs>>

\* P2PNode._handle_websocket for an admitted proof up to the point where
\* `await ws.send_json({"type": "initial", ...})` suspends: the connection
\* is in _ws_clients (appended before the await) and the message, built
\* from the state at the call, is not written yet.
WsOpenSuspends(n, cid, prf) ==
    /\ resp = NoResp
    /\ \A c \in ws_clients[n] : c.cid # cid
    /\ IsContributing(prf, 1, now).raised = "none"
    /\ WsAdmitted(prf, now)
    /\ ws_clients' = [ws_clients EXCEPT ![n] = @ \cup
                        {[WsConn(cid, prf, now) EXCEPT
                            !.initial = FALSE,
                            !.pending = [traces |-> shared[n],
                                         peers |-> Range(NonStale(peers[n], now))]]}]
    /\ UNCHANGED <<proofVars, storeVars, decayVars, loopVars, dhtVars, discVars, pureVars, submitVars, staleVars, syncVars, gossipVars, shardVars, queryVars, liveVars>>
    /\ UNCHANGED <<now, ticks, share, peers, shared, count, tokens, net, nextId,
                   nextOrigin, nextTok, subs, resp>>

\* The suspended send of the "initial" message resumes and writes it.
WsInitialSent(n, cid) ==
    /\ resp = NoResp
    /\ \E c \in ws_clients[n] :
          /\ c.cid = cid
          /\ ~c.initial
          /\ ws_clients' = [ws_clients EXCEPT ![n] =
                              (@ \ {c}) \cup {[c EXCEPT !.initial = TRUE,
                                                        !.pending = NoSnapshot]}]
          /\ resp' = [NoResp EXCEPT !.kind = "ws_initial", !.by = "client",
                                    !.node = n, !.proof = c.proof, !.token = cid,
                                    !.traces = c.pending.traces,
                                    !.peers = c.pending.peers]
    /\ UNCHANGED <<proofVars, storeVars, decayVars, loopVars, dhtVars, discVars, pureVars, submitVars, staleVars, syncVars, gossipVars, shardVars, queryVars, liveVars>>
    /\ UNCHANGED <<now, ticks, share, peers, shared, count, tokens, net, nextId,
                   nextOrigin, nextTok, subs>>

\* The end of P2PNode._handle_websocket: the connection closes.
WsClose(n, cid) ==
    /\ resp = NoResp
    /\ \E c \in ws_clients[n] : c.cid = cid
    /\ ws_clients' = [ws_clients EXCEPT ![n] = {c \in @ : c.cid # cid}]
    /\ UNCHANGED <<proofVars, storeVars, decayVars, loopVars, dhtVars, discVars, pureVars, submitVars, staleVars, syncVars, gossipVars, shardVars, queryVars, liveVars>>
    /\ UNCHANGED <<now, ticks, share, peers, shared, count, tokens, net, nextId,
                   nextOrigin, nextTok, subs, resp>>

\* P2PNode._broadcast_to_ws_clients with a message of type `ty`; the sends
\* to the connections in `dead` raise.  The slot holds the connections the
\* message was sent to.
BroadcastToWsClients(n, ty, dead) ==
    /\ resp = NoResp
    /\ ws_clients[n] # {}
    /\ dead \subseteq ws_clients[n]
    /\ ws_clients' = [ws_clients EXCEPT ![n] = @ \ dead]
    /\ resp' = [NoResp EXCEPT !.kind = ty, !.by = n, !.node = n,
                              !.peers = ws_clients[n] \ dead]
    /\ UNCHANGED <<proofVars, storeVars, decayVars, loopVars, dhtVars, discVars, pureVars, submitVars, staleVars, syncVars, gossipVars, shardVars, queryVars, liveVars>>
    /\ UNCHANGED <<now, ticks, share, peers, shared, count, tokens, net, nextId,
                   nextOrigin, nextTok, subs>>

WsMessageTypes == {"traceroute", "region_data"}

NextWs ==
    \/ \E n \in Submitters, b \in BOOLEAN : SetSharing(n, b)
    \/ \E n \in Submitters, h \in GateHopLists : SubmitTraceroute(n, TRUE, h)
    \/ \E n \in Submitters, cid \in 1 .. MaxWsClients, prf \in ClientProofs :
            WsOpen(n, cid, prf)
    \/ \E n \in Submitters, cid \in 1 .. MaxWsClients, prf \in ClientProofs :
            WsOpenSuspends(n, cid, prf)
    \/ \E n \in Submitters, cid \in 1 .. MaxWsClients : WsInitialSent(n, cid)
    \/ \E n \in Submitters, cid \in 1 .. MaxWsClients : WsClose(n, cid)
    \/ \E n \in Submitters, ty \in WsMessageTypes :
            \E dead \in SUBSET ws_clients[n] : BroadcastToWsClients(n, ty, dead)
    \/ Respond
    \/ \E d \in GateTickSteps : NodeTick(d)

\* C20: a WebSocket connection whose proof is not contributing when it
\* connects is never in the live-connection set, is not sent the "initial"
\* snapshot and is among the receivers of no later "traceroute" or
\* "region_data" message.
C20_LiveStreamGated ==
    /\ \A n \in Node : \A c \in ws_clients[n] :
          /\ IsContributing(c.proof, 1, c.at).raised = "none"
          /\ IsContributing(c.proof, 1, c.at).result
    /\ resp.kind \in WsMessageTypes =>
          \A c \in resp.peers :
             /\ IsContributing(c.proof, 1, c.at).raised = "none"
             /\ IsContributing(c.proof, 1, c.at).result
    /\ resp.kind = "ws_initial" =>
          \E c \in ws_clients[resp.node] :
             /\ c.cid = resp.token
             /\ c.proof = resp.proof
             /\ IsContributing(c.proof, 1, c.at).raised = "none"
             /\ IsContributing(c.proof, 1, c.at).result
    /\ resp.kind \in {"ws_error", "ws_raised"} =>
          /\ resp.traces = {}
          /\ resp.peers = {}
          /\ \A c \in ws_clients[resp.node] : c.cid # resp.token

C20_Witness ==
    /\ resp.kind = "ws_error"
    /\ ws_clients[resp.node] # {}
    /\ shared[resp.node] # {}
    /\ resp.proof # NoProof

\* C21: the first message an admitted WebSocket client receives is the
\* "initial" snapshot: under any interleaving with submissions, incoming
\* broadcasts or region loads, no "traceroute" or "region_data" message is
\* sent to a connection whose "initial" snapshot has not been sent.
C21_InitialFirst ==
    resp.kind \in WsMessageTypes => \A c \in resp.peers : c.initial

(***************************************************************************)
(* The lifecycle of the components and their background loops: the P2P     *)
(* node (gossip, maintenance, stats, data sync), auto-discovery            *)
(* (discovery, announce) and the DHT client (listener).  A task is the     *)
(* record of where its coroutine is suspended and of whether its           *)
(* cancellation has been requested and not yet delivered.                  *)
(***************************************************************************)
P2PLoops == {"gossip", "maintenance", "stats", "data_sync"}
DiscoveryLoops == {"discovery", "announce"}
DhtLoops == {"dht_listener"}
Loops == P2PLoops \cup DiscoveryLoops \cup DhtLoops
Comps == {"p2p", "discovery", "dht"}

Owner(l) == IF l \in P2PLoops THEN "p2p"
            ELSE IF l \in DiscoveryLoops THEN "discovery" ELSE "dht"

\* `while self._running: try: await asyncio.sleep(..); <body>`: the flag is
\* tested after the body, not between the sleep and the body.
SleepFirst == {"gossip", "maintenance", "stats"}

\* The loops whose body has an outbound call, a callback or a parse step.
Fallible == Loops \ {"stats"}

\* A variant of the loops in which no iteration is guarded.
LoopCatchesNothing(l) == FALSE

\* The loops whose iteration is inside `try: ... except Exception`.
LoopCatches(l) == l \in Loops \ {"stats"}

\* A variant of stop() that cancels no task.
TaskCancelledNever(l) == FALSE

\* The tasks that stop() of their owner cancels (the members of self._tasks;
\* the DHT listener task is not kept anywhere).
TaskCancelled(l) == l \in P2PLoops \cup DiscoveryLoops

\* P2PNode.start: `await self._start_server()`, then the tasks and the
\* bootstrap announcements.
StartSteps == <<"server", "tasks">>

NoTask == [st |-> "none", cancel |-> FALSE]
Created == [st |-> "sleeping", cancel |-> FALSE]
Alive(t) == t.st \in {"sleeping", "round", "backoff"}

LoopIdle ==
    /\ phase = [c \in Comps |-> "new"]
    /\ running = [c \in Comps |-> FALSE]
    /\ server = "none"
    /\ task = [l \in Loops |-> NoTask]

\* The state after `while self._running:` is evaluated again.
AtTop(l) ==
    IF ~running[Owner(l)] THEN "ended"
    ELSE IF l \in SleepFirst THEN "sleeping" ELSE "round"

\* One step of P2PNode.start (k = 1, 2); `ok` tells whether the server
\* could be bound.
P2PStartStep(k, ok) ==
    /\ phase["p2p"] = (IF k = 1 THEN "new" ELSE "starting")
    /\ running' = [running EXCEPT !["p2p"] = TRUE]
    /\ IF StartSteps[k] = "server"
       THEN /\ server' = IF ok THEN "bound" ELSE server
            /\ task' = task
            /\ phase' = [phase EXCEPT !["p2p"] =
                           IF ~ok THEN "failed"
                           ELSE IF k = 1 THEN "starting" ELSE "started"]
       ELSE /\ task' = [l \in Loops |-> IF l \in P2PLoops THEN Created ELSE task[l]]
            /\ server' = server
            /\ phase' = [phase EXCEPT !["p2p"] =
                           IF k = 1 THEN "starting" ELSE "started"]
    /\ UNCHANGED <<now, ticks>>
    /\ UNCHANGED <<proofVars, nodeVars, storeVars, decayVars, wsVars, dhtVars, discVars, pureVars, submitVars, staleVars, syncVars, gossipVars, shardVars, queryVars, liveVars>>

\* P2PNode.stop up to `await self._runner.cleanup()`
P2PStop ==
    /\ phase["p2p"] \in {"started", "failed"}
    /\ running' = [running EXCEPT !["p2p"] = FALSE]
    /\ task' = [l \in Loops |->
                  IF l \in P2PLoops /\ Alive(task[l]) /\ TaskCancelled(l)
                  THEN [task[l] EXCEPT !.cancel = TRUE] ELSE task[l]]
    /\ phase' = [phase EXCEPT !["p2p"] = "stopping"]
    /\ UNCHANGED <<now, ticks, server>>
    /\ UNCHANGED <<proofVars, nodeVars, storeVars, decayVars, wsVars, dhtVars, discVars, pureVars, submitVars, staleVars, syncVars, gossipVars, shardVars, queryVars, liveVars>>

\* P2PNode.stop returns.
P2PStopReturns ==
    /\ phase["p2p"] = "stopping"
    /\ phase' = [phase EXCEPT !["p2p"] = "stopped"]
    /\ server' = IF server = "bound" THEN "closed" ELSE server
    /\ UNCHANGED <<now, ticks, running, task>>
    /\ UNCHANGED <<proofVars, nodeVars, storeVars, decayVars, wsVars, dhtVars, discVars, pureVars, submitVars, staleVars, syncVars, gossipVars, shardVars, queryVars, liveVars>>

\* AutoDiscovery.start; `dht_ok` tells whether BitTorrentDHT.start could
\* bind its socket.
DiscoveryStart(dht_ok) ==
    /\ phase["discovery"] = "new"
    /\ phase' = [phase EXCEPT !["discovery"] = "started",
                              !["dht"] = IF dht_ok THEN "started" ELSE "failed"]
    /\ running' = [running EXCEPT !["discovery"] = TRUE, !["dht"] = dht_ok]
    /\ task' = [l \in Loops |->
                  IF l \in DiscoveryLoops \/ (l \in DhtLoops /\ dht_ok)
                  THEN Created ELSE task[l]]
    /\ UNCHANGED <<now, ticks, server>>
    /\ UNCHANGED <<proofVars, nodeVars, storeVars, decayVars, wsVars, dhtVars, discVars, pureVars, submitVars, staleVars, syncVars, gossipVars, shardVars, queryVars, liveVars>>

\* AutoDiscovery.stop, BitTorrentDHT.stop included
DiscoveryStop ==
    /\ phase["discovery"] = "started"
    /\ phase' = [phase EXCEPT !["discovery"] = "stopped", !["dht"] = "stopped"]
    /\ running' = [running EXCEPT !["discovery"] = FALSE, !["dht"] = FALSE]
    /\ task' = [l \in Loops |->
                  IF l \in DiscoveryLoops /\ Alive(task[l]) /\ TaskCancelled(l)
                  THEN [task[l] EXCEPT !.cancel = TRUE] ELSE task[l]]
    /\ UNCHANGED <<now, ticks, server>>
    /\ UNCHANGED <<proofVars, nodeVars, storeVars, decayVars, wsVars, dhtVars, discVars, pureVars, submitVars, staleVars, syncVars, gossipVars, shardVars, queryVars, liveVars>>

\* asyncio.sleep of loop l is over (for the listener: recvfrom returned).
Wake(l) ==
    /\ task[l].st \in {"sleeping", "backoff"}
    /\ ~task[l].cancel
    /\ task' = [task EXCEPT ![l].st =
                  IF l \in SleepFirst /\ task[l].st = "sleeping" THEN "round"
                  ELSE AtTop(l)]
    /\ UNCHANGED <<now, ticks, phase, running, server>>
    /\ UNCHANGED <<proofVars, nodeVars, storeVars, decayVars, wsVars, dhtVars, discVars, pureVars, submitVars, staleVars, syncVars, gossipVars, shardVars, queryVars, liveVars>>

\* The body of an iteration of loop l completes.
RoundOk(l) ==
    /\ task[l].st = "round"
    /\ ~task[l].cancel
    /\ task' = [task EXCEPT ![l].st =
                  IF l \in SleepFirst THEN AtTop(l) ELSE "sleeping"]
    /\ UNCHANGED <<now, ticks, phase, running, server>>
    /\ UNCHANGED <<proofVars, nodeVars, storeVars, decayVars, wsVars, dhtVars, discVars, pureVars, submitVars, staleVars, syncVars, gossipVars, shardVars, queryVars, liveVars>>

\* An outbound call, a callback or a parse step of the body raises an
\* Exception that reaches the loop.
RoundFails(l) ==
    /\ task[l].st = "round"
    /\ ~task[l].cancel
    /\ l \in Fallible
    /\ task' = [task EXCEPT ![l].st =
                  IF ~LoopCatches(l) THEN "raised"
                  ELSE IF l \in SleepFirst THEN AtTop(l) ELSE "backoff"]
    /\ UNCHANGED <<now, ticks, phase, running, server>>
    /\ UNCHANGED <<proofVars, nodeVars, storeVars, decayVars, wsVars, dhtVars, discVars, pureVars, submitVars, staleVars, syncVars, gossipVars, shardVars, queryVars, liveVars>>

\* The CancelledError requested by stop() is raised at the await where the
\* task is suspended.
CancelDelivered(l) ==
    /\ task[l].cancel
    /\ task' = [task EXCEPT ![l] = [st |-> "ended", cancel |-> FALSE]]
    /\ UNCHANGED <<now, ticks, phase, running, server>>
    /\ UNCHANGED <<proofVars, nodeVars, storeVars, decayVars, wsVars, dhtVars, discVars, pureVars, submitVars, staleVars, syncVars, gossipVars, shardVars, queryVars, liveVars>>

NextLoops ==
    \/ \E k \in {1, 2}, ok \in BOOLEAN : P2PStartStep(k, ok)
    \/ P2PStop
    \/ P2PStopReturns
    \/ \E ok \in BOOLEAN : DiscoveryStart(ok)
    \/ DiscoveryStop
    \/ \E l \in Loops : Wake(l)
    \/ \E l \in Loops : RoundOk(l)
    \/ \E l \in Loops : RoundFails(l)
    \/ \E l \in Loops : CancelDelivered(l)

LoopFairness == \A l \in Loops : WF_vars(CancelDelivered(l))

\* C22: no background loop (gossip, maintenance, stats, data sync,
\* discovery, announce, DHT listener) lets an exception out of itself: after
\* an iteration in which an outbound call, a callback or a parse step
\* failed, the loop is alive and on its way to its next iteration as long as
\* its component runs, and a loop ends only once its component was stopped
\* (its task cancelled or its _running flag cleared).
C22_LoopsSurvive ==
    /\ [](\A l \in Loops : task[l].st # "raised")
    /\ [][\A l \in Loops :
            /\ (RoundFails(l) /\ running[Owner(l)]) => Alive(task'[l])
            /\ (task'[l].st = "ended" /\ task[l].st # "ended")
                  => (task[l].cancel \/ ~running[Owner(l)])]_vars

C22_Witness ==
    /\ task["data_sync"].st = "backoff"
    /\ task["discovery"].st = "backoff"
    /\ task["dht_listener"].st = "backoff"
    /\ task["gossip"].st = "round"
    /\ \A c \in Comps : running[c]

\* C23: the loops of the P2P node run only between a successful start and
\* stop: a task that is alive and not cancelled belongs to a started node;
\* once stop() has been called no gossip round, maintenance pass or data
\* sync begins, and after stop() returned every loop task eventually ends;
\* an announcement (a gossip round, the bootstrap of start()) is sent only
\* with the listener bound and the port resolved.
C23_Lifecycle ==
    /\ [](\A l \in P2PLoops :
             (Alive(task[l]) /\ ~task[l].cancel) => phase["p2p"] = "started")
    /\ [][/\ phase["p2p"] \in {"stopping", "stopped"} =>
               \A l \in P2PLoops : ~(task'[l].st = "round" /\ task[l].st # "round")
          /\ (\/ task'["gossip"].st = "round" /\ task["gossip"].st # "round"
              \/ phase'["p2p"] = "started" /\ phase["p2p"] # "started")
                => server' = "bound"]_vars
    /\ [](phase["p2p"] = "stopped"
             => <>(\A l \in P2PLoops : task[l].st \in {"none", "ended"}))

C23_Witness ==
    /\ phase["p2p"] = "stopped"
    /\ server = "closed"
    /\ \A l \in P2PLoops : task[l].st = "ended"
    /\ phase["discovery"] = "started"

(***************************************************************************)
(* The BitTorrent DHT client of discovery.py.  A query is written to the   *)
(* UDP socket under a fresh transaction id and its future waits in         *)
(* _pending_queries; a datagram that decodes to a response resolves the    *)
(* future filed under its transaction id.  get_peers and announce_peer are *)
(* two coroutines that walk a sample of the known nodes one query at a     *)
(* time.                                                                   *)
(***************************************************************************)
DHT_BOOTSTRAP_NODES == {"router_a", "router_b"}

DhtPeers == {"peer_a"}

MaxDhtQueries == 4

TidModulus == 65536

DhtTokens == {1, 2}

DhtCallers == {"get_peers", "announce_peer"}

NoMsg == [y |-> "none", t |-> 0, r |-> "absent", token |-> 0, values |-> {}]

\* The datagrams the socket can deliver: undecodable bytes, an error
\* message, and responses whose "r" is a dictionary (with or without a
\* token, with or without peer values), is missing, or is an integer.
DhtMessages ==
    {[NoMsg EXCEPT !.y = "garbage"]}
      \cup {[NoMsg EXCEPT !.y = "e", !.t = t] : t \in 1..MaxDhtQueries}
      \cup {[y |-> "r", t |-> t, r |-> "dict", token |-> k, values |-> v] :
              t \in 1..MaxDhtQueries, k \in DhtTokens \cup {0},
              v \in SUBSET DhtPeers}
      \cup {[NoMsg EXCEPT !.y = "r", !.t = t, !.r = s] :
              t \in 1..MaxDhtQueries, s \in {"absent", "int"}}

NoDhtCall ==
    [stage |-> "idle", todo |-> <<>>, q |-> "none", tid |-> 0, token |-> 0,
     result |-> {}, error |-> "none"]

DhtIdle ==
    /\ dht_sock = "none"
    /\ dht_tid = 0
    /\ dht_pending = {}
    /\ dht_sent = {}
    /\ dht_call = [c \in DhtCallers |-> NoDhtCall]
    /\ peers_found = {}

\* The orders in which random.sample can return the known nodes.
SampleOrders ==
    {o \in [1..Cardinality(DHT_BOOTSTRAP_NODES) -> DHT_BOOTSTRAP_NODES] :
        \A i, j \in DOMAIN o : o[i] = o[j] => i = j}

\* BitTorrentDHT._next_transaction_id
NextTransactionId(tid) == (tid + 1) % TidModulus

\* A variant of the lookup that hands a response to every waiting future.
TidMatchesAny(m, tid) == TRUE

\* `tid in self._pending_queries` of _handle_message
TidMatches(m, tid) == m.t = tid

\* The exceptions the try of _send_query turns into a None result.
SendQueryCatches(exc) == exc = "TimeoutError"

\* BitTorrentDHT.start: the socket is created and bound, or the call raises
\* before the socket exists.
DhtStart(ok) ==
    /\ dht_sock = "none"
    /\ dht_sock' = IF ok THEN "open" ELSE "none"
    /\ UNCHANGED <<dht_tid, dht_pending, dht_sent, dht_call, peers_found>>
    /\ UNCHANGED <<now, ticks, proofVars, nodeVars, storeVars, decayVars, wsVars,
                   loopVars, discVars, pureVars, submitVars, staleVars, syncVars, gossipVars, shardVars, queryVars, liveVars>>

\* BitTorrentDHT.get_peers up to its first query
GetPeersStart(order) ==
    /\ dht_call["get_peers"].stage = "idle"
    /\ peers_found' = {}
    /\ dht_call' = [dht_call EXCEPT !["get_peers"] =
                      [NoDhtCall EXCEPT !.stage = "send", !.todo = order,
                                     !.q = "get_peers"]]
    /\ UNCHANGED <<dht_sock, dht_tid, dht_pending, dht_sent>>
    /\ UNCHANGED <<now, ticks, proofVars, nodeVars, storeVars, decayVars, wsVars,
                   loopVars, discVars, pureVars, submitVars, staleVars, syncVars, gossipVars, shardVars, queryVars, liveVars>>

\* BitTorrentDHT.announce_peer up to its first query
AnnouncePeerStart(order) ==
    /\ dht_call["announce_peer"].stage = "idle"
    /\ dht_call' = [dht_call EXCEPT !["announce_peer"] =
                      [NoDhtCall EXCEPT !.stage = "send", !.todo = order,
                                     !.q = "get_peers"]]
    /\ UNCHANGED <<dht_sock, dht_tid, dht_pending, dht_sent, peers_found>>
    /\ UNCHANGED <<now, ticks, proofVars, nodeVars, storeVars, decayVars, wsVars,
                   loopVars, discVars, pureVars, submitVars, staleVars, syncVars, gossipVars, shardVars, queryVars, liveVars>>

\* The loop bodies of get_peers and announce_peer after _send_query has
\* returned `response` (NoMsg stands for None).
AfterQuery(c, response) ==
    LET call == dht_call[c]
        rest == Tail(call.todo)
        next == [call EXCEPT !.todo = rest, !.q = "get_peers", !.token = 0,
                    !.stage = IF rest # <<>> THEN "send"
                              ELSE IF c = "get_peers" THEN "sleep"
                              ELSE "returned"]
    IN IF c = "get_peers" \/ call.q = "announce_peer"
       THEN next
       ELSE IF response = NoMsg \/ response.r = "absent"
       THEN next
       ELSE IF response.r = "int"
       THEN [call EXCEPT !.stage = "raised", !.error = "AttributeError"]
       ELSE IF response.token # 0
       THEN [call EXCEPT !.stage = "send", !.q = "announce_peer",
                         !.token = response.token]
       ELSE next

\* BitTorrentDHT._send_query up to the wait for the future: the exception
\* of a failed write leaves through the finally clause, which drops the
\* future, and through the caller, which has no handler.
SendQuery(c, exc) ==
    LET call == dht_call[c]
        tid == NextTransactionId(dht_tid)
        err == IF dht_sock = "none" THEN "AttributeError" ELSE exc
        others == {p \in dht_pending : p.tid # tid}
    IN /\ call.stage = "send"
       /\ dht_tid < MaxDhtQueries
       /\ dht_tid' = tid
       /\ IF err = "none"
          THEN /\ dht_pending' = others \cup {[tid |-> tid, msg |-> NoMsg]}
               /\ dht_sent' = dht_sent \cup
                     {[node |-> Head(call.todo), tid |-> tid, q |-> call.q,
                       token |-> call.token]}
               /\ dht_call' = [dht_call EXCEPT ![c].stage = "await",
                                               ![c].tid = tid]
          ELSE /\ dht_pending' = others
               /\ dht_sent' = dht_sent
               /\ dht_call' = [dht_call EXCEPT ![c] =
                     IF SendQueryCatches(err)
                     THEN AfterQuery(c, NoMsg)
                     ELSE [call EXCEPT !.tid = tid, !.stage = "raised",
                                       !.error = err]]
       /\ UNCHANGED <<dht_sock, peers_found>>
       /\ UNCHANGED <<now, ticks, proofVars, nodeVars, storeVars, decayVars, wsVars,
                   loopVars, discVars, pureVars, submitVars, staleVars, syncVars, gossipVars, shardVars, queryVars, liveVars>>

\* BitTorrentDHT._handle_message, called by _listen_loop for a datagram
HandleMessage(m) ==
    /\ dht_sock = "open"
    /\ IF m.y = "r"
       THEN /\ dht_pending' =
                 {IF TidMatches(m, p.tid) /\ p.msg = NoMsg
                  THEN [p EXCEPT !.msg = m] ELSE p : p \in dht_pending}
            /\ peers_found' =
                 IF /\ \A p \in dht_pending : TidMatches(m, p.tid) => p.msg = NoMsg
                    /\ m.r = "dict"
                 THEN peers_found \cup m.values
                 ELSE peers_found
       ELSE UNCHANGED <<dht_pending, peers_found>>
    /\ UNCHANGED <<dht_sock, dht_tid, dht_sent, dht_call>>
    /\ UNCHANGED <<now, ticks, proofVars, nodeVars, storeVars, decayVars, wsVars,
                   loopVars, discVars, pureVars, submitVars, staleVars, syncVars, gossipVars, shardVars, queryVars, liveVars>>

\* asyncio.wait_for returns the result of the future; the finally clause
\* of _send_query drops the future.
QueryReturns(c) ==
    /\ dht_call[c].stage = "await"
    /\ \E p \in dht_pending :
          /\ p.tid = dht_call[c].tid
          /\ p.msg # NoMsg
          /\ dht_pending' = dht_pending \ {p}
          /\ dht_call' = [dht_call EXCEPT ![c] = AfterQuery(c, p.msg)]
    /\ UNCHANGED <<dht_sock, dht_tid, dht_sent, peers_found>>
    /\ UNCHANGED <<now, ticks, proofVars, nodeVars, storeVars, decayVars, wsVars,
                   loopVars, discVars, pureVars, submitVars, staleVars, syncVars, gossipVars, shardVars, queryVars, liveVars>>

\* asyncio.wait_for gives up after five seconds: _send_query returns None.
QueryTimesOut(c) ==
    /\ dht_call[c].stage = "await"
    /\ \E p \in dht_pending :
          /\ p.tid = dht_call[c].tid
          /\ p.msg = NoMsg
          /\ dht_pending' = dht_pending \ {p}
          /\ dht_call' = [dht_call EXCEPT ![c] = AfterQuery(c, NoMsg)]
    /\ UNCHANGED <<dht_sock, dht_tid, dht_sent, peers_found>>
    /\ UNCHANGED <<now, ticks, proofVars, nodeVars, storeVars, decayVars, wsVars,
                   loopVars, discVars, pureVars, submitVars, staleVars, syncVars, gossipVars, shardVars, queryVars, liveVars>>

\* The end of get_peers: the three-second sleep is over.
GetPeersReturns ==
    /\ dht_call["get_peers"].stage = "sleep"
    /\ dht_call' = [dht_call EXCEPT !["get_peers"].stage = "returned",
                                    !["get_peers"].result = peers_found]
    /\ UNCHANGED <<dht_sock, dht_tid, dht_pending, dht_sent, peers_found>>
    /\ UNCHANGED <<now, ticks, proofVars, nodeVars, storeVars, decayVars, wsVars,
                   loopVars, discVars, pureVars, submitVars, staleVars, syncVars, gossipVars, shardVars, queryVars, liveVars>>

SendErrors == {"none", "OSError"}

NextDht ==
    \/ \E ok \in BOOLEAN : DhtStart(ok)
    \/ \E o \in SampleOrders : GetPeersStart(o)
    \/ \E o \in SampleOrders : AnnouncePeerStart(o)
    \/ \E c \in DhtCallers : \E exc \in SendErrors : SendQuery(c, exc)
    \/ \E m \in DhtMessages : HandleMessage(m)
    \/ \E c \in DhtCallers : QueryReturns(c)
    \/ \E c \in DhtCallers : QueryTimesOut(c)
    \/ GetPeersReturns

\* C24: get_peers and announce_peer never raise: whether a queried node
\* times out, the write to the socket fails, the socket was never opened or
\* a response is malformed, the call completes, and get_peers returns the
\* peers harvested so far.
C24_NeverRaise ==
    /\ \A c \in DhtCallers : dht_call[c].stage # "raised"
    /\ dht_call["get_peers"].stage = "returned"
          => dht_call["get_peers"].result = peers_found

\* C25: an announce_peer query goes to a node only after a response filed
\* under the transaction id of this call's get_peers query to that node
\* has arrived with a token, and it carries exactly that token; a node that
\* timed out or sent no token gets no announce_peer.
C25_TwoPhase ==
    [][LET old == dht_call["announce_peer"]
           new == dht_call'["announce_peer"]
       IN /\ (new.q = "announce_peer" /\ old.q # "announce_peer") =>
                /\ new.todo = old.todo
                /\ \E g \in dht_sent :
                      /\ g.q = "get_peers"
                      /\ g.node = Head(old.todo)
                      /\ g.tid = old.tid
                /\ \E p \in dht_pending :
                      /\ p.tid = old.tid
                      /\ p.msg.y = "r"
                      /\ p.msg.t = old.tid
                      /\ p.msg.token \in DhtTokens
                      /\ p.msg.token = new.token
          /\ \A s \in dht_sent' \ dht_sent :
                s.q = "announce_peer" =>
                   /\ old.stage = "send"
                   /\ old.q = "announce_peer"
                   /\ s.node = Head(old.todo)
                   /\ s.token = old.token]_vars

C25_Witness ==
    /\ dht_call["announce_peer"].stage = "returned"
    /\ \E s \in dht_sent : s.q = "announce_peer" /\ s.token = 2
    /\ \E n \in DHT_BOOTSTRAP_NODES :
          \A s \in dht_sent : s.q = "announce_peer" => s.node # n

(***************************************************************************)
(* AutoDiscovery of discovery.py: one discovery cycle walks the peers the  *)
(* DHT returned, then the peers heard on the IPFS topic, then the TXT      *)
(* records of the bootstrap domains, and hands every candidate to          *)
(* _add_discovered_peer.                                                   *)
(***************************************************************************)
MaxDiscoverCycles == 2

MaxIpfsFound == 2

Candidates == {[host |-> h, port |-> 8080] : h \in {"h1", "h2"}}

\* f"{host}:{port}"
Address(c) == <<c.host, c.port>>

Addresses == {Address(c) : c \in Candidates}

NoPing == [addr |-> <<>>, status |-> 0, has_id |-> FALSE]

\* What POST /p2p/ping can come to: an exception or a timeout (status 0),
\* another status, or a 200 whose body has or lacks "peer_id".
PingResponses ==
    {[status |-> 0, has_id |-> FALSE], [status |-> 404, has_id |-> FALSE],
     [status |-> 200, has_id |-> FALSE], [status |-> 200, has_id |-> TRUE]}

CandidateLists ==
    {<<>>} \cup {<<c>> : c \in Candidates}
           \cup {<<c, d>> : c \in Candidates, d \in Candidates}

DiscIdle ==
    /\ disc_peers = {}
    /\ disc_cb = [a \in Addresses |-> 0]
    /\ disc = [section |-> "idle", queue |-> <<>>, method |-> "none",
               ping |-> NoPing, cycles |-> 0]
    /\ ipfs_found = <<>>

\* A variant of the membership test that never finds the address.
AlreadyDiscoveredNever(a) == FALSE

\* `address in self._discovered_peers`
AlreadyDiscovered(a) == \E p \in disc_peers : p.address = a

\* AutoDiscovery._verify_ham_peer, given what the ping came to
VerifyHamPeer(r) == r.status = 200 /\ r.has_id

\* IPFSDiscovery._handle_pubsub_message for a message that parses
IpfsMessage(c) ==
    /\ Len(ipfs_found) < MaxIpfsFound
    /\ ipfs_found' = Append(ipfs_found, c)
    /\ UNCHANGED <<disc_peers, disc_cb, disc>>
    /\ UNCHANGED <<now, ticks, proofVars, nodeVars, storeVars, decayVars, wsVars,
                   loopVars, dhtVars, pureVars, submitVars, staleVars, syncVars, gossipVars, shardVars, queryVars, liveVars>>

\* AutoDiscovery._discover up to the list that get_peers returned (or the
\* exception it raised, which the try turns into an empty walk)
DiscoverDht(raised, found) ==
    /\ disc.section = "idle"
    /\ disc.cycles < MaxDiscoverCycles
    /\ disc' = [disc EXCEPT !.section = "dht", !.method = "dht",
                            !.queue = IF raised THEN <<>> ELSE found]
    /\ UNCHANGED <<disc_peers, disc_cb, ipfs_found>>
    /\ UNCHANGED <<now, ticks, proofVars, nodeVars, storeVars, decayVars, wsVars,
                   loopVars, dhtVars, pureVars, submitVars, staleVars, syncVars, gossipVars, shardVars, queryVars, liveVars>>

\* AutoDiscovery._add_discovered_peer for the next candidate of the walk,
\* with the answer `r` to the ping of _verify_ham_peer
AddDiscoveredPeer(r) ==
    /\ disc.section # "idle"
    /\ disc.queue # <<>>
    /\ LET c == Head(disc.queue)
           a == Address(c)
       IN IF AlreadyDiscovered(a)
          THEN /\ disc' = [disc EXCEPT !.queue = Tail(disc.queue)]
               /\ UNCHANGED <<disc_peers, disc_cb>>
          ELSE /\ disc' = [disc EXCEPT !.queue = Tail(disc.queue),
                              !.ping = [addr |-> a, status |-> r.status,
                                        has_id |-> r.has_id]]
               /\ IF VerifyHamPeer(r)
                  THEN /\ disc_peers' = {p \in disc_peers : p.address # a}
                             \cup {[address |-> a, method |-> disc.method]}
                       /\ disc_cb' = [disc_cb EXCEPT ![a] = @ + 1]
                  ELSE UNCHANGED <<disc_peers, disc_cb>>
    /\ UNCHANGED ipfs_found
    /\ UNCHANGED <<now, ticks, proofVars, nodeVars, storeVars, decayVars, wsVars,
                   loopVars, dhtVars, pureVars, submitVars, staleVars, syncVars, gossipVars, shardVars, queryVars, liveVars>>

\* The IPFS part of _discover: a copy of the peers heard so far
DiscoverIpfs ==
    /\ disc.section = "dht"
    /\ disc.queue = <<>>
    /\ disc' = [disc EXCEPT !.section = "ipfs", !.method = "ipfs",
                            !.queue = ipfs_found]
    /\ UNCHANGED <<disc_peers, disc_cb, ipfs_found>>
    /\ UNCHANGED <<now, ticks, proofVars, nodeVars, storeVars, decayVars, wsVars,
                   loopVars, dhtVars, pureVars, submitVars, staleVars, syncVars, gossipVars, shardVars, queryVars, liveVars>>

\* AutoDiscovery._dns_bootstrap with the TXT records that resolve
DnsBootstrap(answers) ==
    /\ disc.section = "ipfs"
    /\ disc.queue = <<>>
    /\ disc' = [disc EXCEPT !.section = "dns", !.method = "dns",
                            !.queue = answers]
    /\ UNCHANGED <<disc_peers, disc_cb, ipfs_found>>
    /\ UNCHANGED <<now, ticks, proofVars, nodeVars, storeVars, decayVars, wsVars,
                   loopVars, dhtVars, pureVars, submitVars, staleVars, syncVars, gossipVars, shardVars, queryVars, liveVars>>

\* The end of _discover; the loop sleeps until the next cycle.
DiscoverDone ==
    /\ disc.section = "dns"
    /\ disc.queue = <<>>
    /\ disc' = [disc EXCEPT !.section = "idle", !.method = "none",
                            !.cycles = @ + 1]
    /\ UNCHANGED <<disc_peers, disc_cb, ipfs_found>>
    /\ UNCHANGED <<now, ticks, proofVars, nodeVars, storeVars, decayVars, wsVars,
                   loopVars, dhtVars, pureVars, submitVars, staleVars, syncVars, gossipVars, shardVars, queryVars, liveVars>>

NextDisc ==
    \/ \E c \in Candidates : IpfsMessage(c)
    \/ \E raised \in BOOLEAN : \E found \in CandidateLists :
          DiscoverDht(raised, found)
    \/ \E r \in PingResponses : AddDiscoveredPeer(r)
    \/ DiscoverIpfs
    \/ \E answers \in CandidateLists : DnsBootstrap(answers)
    \/ DiscoverDone

\* C26: an address enters the discovered-peer set only in a step whose
\* ping to that address was answered with status 200 and a peer id, and
\* over any number of discovery cycles across the DHT, pub/sub and DNS
\* channels the peer-discovered callback fires at most once per address.
C26_VerifiedOnce ==
    /\ [](\A a \in Addresses :
             /\ disc_cb[a] <= 1
             /\ disc_cb[a] = 1 <=> \E p \in disc_peers : p.address = a)
    /\ [][\A p \in disc_peers' \ disc_peers :
             /\ disc'.ping.addr = p.address
             /\ disc'.ping.status = 200
             /\ disc'.ping.has_id]_vars

C26_Witness ==
    /\ disc.cycles = MaxDiscoverCycles
    /\ \E p \in disc_peers : p.method = "dns" /\ disc_cb[p.address] = 1
    /\ \E a \in Addresses :
          /\ \A p \in disc_peers : p.address # a
          /\ disc.ping = [addr |-> a, status |-> 200, has_id |-> FALSE]

(***************************************************************************)
(* The bencode codec of the DHT client.  Bytes are sequences of byte       *)
(* values; a Python value is the record of its type and content: an int,   *)
(* a bytes object (a sequence of byte values), a list (a sequence of       *)
(* values) or a dict (a set of key/value items with distinct keys); the    *)
(* fields a type does not use are empty.                                   *)
(***************************************************************************)
MaxBytesLen == 2

MaxListLen == 2

Ascii ==
    [i |-> 105, l |-> 108, d |-> 100, e |-> 101, colon |-> 58, minus |-> 45,
     plus |-> 43, zero |-> 48, nine |-> 57, one |-> 49]

BenInt(n) ==
    [t |-> "int", n |-> n, s |-> <<>>, xs |-> <<>>, items |-> {}]

BenBytes(s) ==
    [t |-> "bytes", n |-> 0, s |-> s, xs |-> <<>>, items |-> {}]

BenList(xs) ==
    [t |-> "list", n |-> 0, s |-> <<>>, xs |-> xs, items |-> {}]

BenDict(items) ==
    [t |-> "dict", n |-> 0, s |-> <<>>, xs |-> <<>>, items |-> items]

NoVal == [t |-> "none", n |-> 0, s |-> <<>>, xs |-> <<>>, items |-> {}]

RECURSIVE Digits(_)
\* The decimal digits of a natural number, as str() writes them.
Digits(n) ==
    IF n < 10 THEN <<Ascii.zero + n>>
    ELSE Digits(n \div 10) \o <<Ascii.zero + (n % 10)>>

\* A variant of the formatting that drops the sign.
IntToBytesUnsigned(n) == IF n < 0 THEN Digits(0 - n) ELSE Digits(n)

\* f"{data}".encode() for an int
IntToBytes(n) ==
    IF n < 0 THEN <<Ascii.minus>> \o Digits(0 - n) ELSE Digits(n)

RECURSIVE LexLess(_, _)
\* The order of bytes objects: a < b
LexLess(a, b) ==
    IF a = <<>> THEN b # <<>>
    ELSE IF b = <<>> THEN FALSE
    ELSE IF a[1] # b[1] THEN a[1] < b[1]
    ELSE LexLess(Tail(a), Tail(b))

RECURSIVE SortedItems(_)
\* sorted(data.items(), key=lambda x: x[0])
SortedItems(items) ==
    IF items = {} THEN <<>>
    ELSE LET m == CHOOSE x \in items :
                     \A y \in items \ {x} : LexLess(x.k.s, y.k.s)
         IN <<m>> \o SortedItems(items \ {m})

RECURSIVE BencodeEncode(_), EncodeAll(_), EncodeItems(_)
\* BitTorrentDHT._bencode_encode for an int, bytes, list or dict
BencodeEncode(data) ==
    IF data.t = "int"
    THEN <<Ascii.i>> \o IntToBytes(data.n) \o <<Ascii.e>>
    ELSE IF data.t = "bytes"
    THEN IntToBytes(Len(data.s)) \o <<Ascii.colon>> \o data.s
    ELSE IF data.t = "list"
    THEN <<Ascii.l>> \o EncodeAll(data.xs) \o <<Ascii.e>>
    ELSE <<Ascii.d>> \o EncodeItems(SortedItems(data.items)) \o <<Ascii.e>>

\* b"".join(self._bencode_encode(i) for i in data)
EncodeAll(s) ==
    IF s = <<>> THEN <<>> ELSE BencodeEncode(Head(s)) \o EncodeAll(Tail(s))

\* b"".join(encode(k) + encode(v) for k, v in items)
EncodeItems(s) ==
    IF s = <<>> THEN <<>>
    ELSE BencodeEncode(Head(s).k) \o BencodeEncode(Head(s).val)
            \o EncodeItems(Tail(s))

\* bytes.isdigit() of one byte; -1 stands for the empty slice
IsDigit(b) == b >= Ascii.zero /\ b <= Ascii.nine

\* data[idx:idx+1], with -1 for the empty slice past the end
At(data, idx) == IF idx \in 1..Len(data) THEN data[idx] ELSE 0 - 1

\* data.index(b, idx): the first position from idx on that holds b; 0 stands
\* for the ValueError of a byte that does not occur
IndexOf(data, b, idx) ==
    IF \E p \in idx..Len(data) : data[p] = b
    THEN CHOOSE p \in idx..Len(data) :
            data[p] = b /\ \A q \in idx..(p - 1) : data[q] # b
    ELSE 0

RECURSIVE ParseNat(_)
ParseNat(s) ==
    IF s = <<>> THEN 0
    ELSE ParseNat(SubSeq(s, 1, Len(s) - 1)) * 10 + (s[Len(s)] - Ascii.zero)

\* int(b"..."): an optional sign and decimal digits, else ValueError
ParseInt(s) ==
    LET signed == s # <<>> /\ s[1] \in {Ascii.minus, Ascii.plus}
        body == IF signed THEN Tail(s) ELSE s
    IN IF body = <<>> \/ \E i \in DOMAIN body : ~IsDigit(body[i])
       THEN [ok |-> FALSE, v |-> 0]
       ELSE [ok |-> TRUE,
             v |-> IF signed /\ s[1] = Ascii.minus
                   THEN 0 - ParseNat(body) ELSE ParseNat(body)]

DecodeFails == [val |-> NoVal, idx |-> 0, err |-> TRUE]

RECURSIVE DecodeRecursive(_, _), DecodeListFrom(_, _, _), DecodeDictFrom(_, _, _)
\* BitTorrentDHT._bencode_decode_recursive; idx counts from 1
DecodeRecursive(data, idx) ==
    LET c == At(data, idx)
    IN IF c = Ascii.i
       THEN LET end == IndexOf(data, Ascii.e, idx)
                p == ParseInt(SubSeq(data, idx + 1, end - 1))
            IN IF end = 0 \/ ~p.ok THEN DecodeFails
               ELSE [val |-> BenInt(p.v), idx |-> end + 1, err |-> FALSE]
       ELSE IF c = Ascii.l THEN DecodeListFrom(data, idx + 1, <<>>)
       ELSE IF c = Ascii.d THEN DecodeDictFrom(data, idx + 1, {})
       ELSE IF IsDigit(c)
       THEN LET colon == IndexOf(data, Ascii.colon, idx)
                p == ParseInt(SubSeq(data, idx, colon - 1))
                last == IF colon + p.v <= Len(data)
                        THEN colon + p.v ELSE Len(data)
            IN IF colon = 0 \/ ~p.ok THEN DecodeFails
               ELSE [val |-> BenBytes(SubSeq(data, colon + 1, last)),
                     idx |-> colon + 1 + p.v, err |-> FALSE]
       ELSE DecodeFails

\* The while loop of the list branch
DecodeListFrom(data, idx, acc) ==
    IF At(data, idx) = Ascii.e
    THEN [val |-> BenList(acc), idx |-> idx + 1, err |-> FALSE]
    ELSE LET r == DecodeRecursive(data, idx)
         IN IF r.err THEN DecodeFails
            ELSE DecodeListFrom(data, r.idx, Append(acc, r.val))

\* The while loop of the dict branch: result[key] = value
DecodeDictFrom(data, idx, acc) ==
    IF At(data, idx) = Ascii.e
    THEN [val |-> BenDict(acc), idx |-> idx + 1, err |-> FALSE]
    ELSE LET k == DecodeRecursive(data, idx)
         IN IF k.err \/ k.val.t \in {"list", "dict"} THEN DecodeFails
            ELSE LET r == DecodeRecursive(data, k.idx)
                 IN IF r.err THEN DecodeFails
                    ELSE DecodeDictFrom(data, r.idx,
                            {it \in acc : it.k # k.val}
                               \cup {[k |-> k.val, val |-> r.val]})

\* BitTorrentDHT._bencode_decode
BencodeDecode(data) == DecodeRecursive(data, 1)

(***************************************************************************)
(* The values the codec is run on.                                         *)
(***************************************************************************)
ByteAlphabet == {Ascii.e, Ascii.colon, Ascii.one}

ByteStrings == UNION {[1..n -> ByteAlphabet] : n \in 0..MaxBytesLen}

BenInts == {0 - 12, 0 - 1, 0, 7, 10, 105}

\* A bytes object long enough for a two-digit length prefix.
LongBytes == [i \in 1..11 |-> Ascii.one]

Leaves ==
    {BenInt(n) : n \in BenInts}
       \cup {BenBytes(s) : s \in ByteStrings \cup {LongBytes}}

LeafSample ==
    {BenInt(0 - 1), BenInt(0), BenBytes(<<>>), BenBytes(<<Ascii.e>>),
     BenBytes(<<Ascii.one, Ascii.colon>>)}

DictKeys == {<<>>, <<Ascii.e>>, <<Ascii.one, Ascii.colon>>}

ListsOver(S) == {BenList(s) : s \in UNION {[1..n -> S] : n \in 0..MaxListLen}}

DictsOver(S) ==
    {BenDict({[k |-> BenBytes(k), val |-> f[k]] : k \in DOMAIN f}) :
        f \in UNION {[K -> S] : K \in SUBSET DictKeys}}

NestSample ==
    {BenInt(0 - 1), BenList(<<>>), BenList(<<BenBytes(<<Ascii.e>>)>>),
     BenDict({}),
     BenDict({[k |-> BenBytes(<<Ascii.e>>), val |-> BenInt(0 - 12)]})}

BenValues ==
    Leaves \cup ListsOver(LeafSample) \cup DictsOver(LeafSample)
           \cup ListsOver(NestSample) \cup DictsOver(NestSample)

BenStart(v) ==
    [stage |-> "value", value |-> v, wire |-> <<>>, out |-> NoVal,
     raised |-> FALSE]

BenIdle == ben = BenStart(BenInt(0))

BenInit == ben \in {BenStart(v) : v \in BenValues}

\* data = self._bencode_encode(query)
BenEncode ==
    /\ ben.stage = "value"
    /\ ben' = [ben EXCEPT !.stage = "encoded",
                          !.wire = BencodeEncode(ben.value)]
    /\ UNCHANGED geo
    /\ UNCHANGED <<now, ticks, proofVars, nodeVars, storeVars, decayVars, wsVars,
                   loopVars, dhtVars, discVars, submitVars, staleVars, syncVars, gossipVars, shardVars, queryVars, liveVars>>

\* msg = self._bencode_decode(data)
BenDecode ==
    /\ ben.stage = "encoded"
    /\ LET r == BencodeDecode(ben.wire)
       IN ben' = [ben EXCEPT !.stage = "decoded", !.out = r.val,
                             !.raised = r.err]
    /\ UNCHANGED geo
    /\ UNCHANGED <<now, ticks, proofVars, nodeVars, storeVars, decayVars, wsVars,
                   loopVars, dhtVars, discVars, submitVars, staleVars, syncVars, gossipVars, shardVars, queryVars, liveVars>>

NextBencode == BenEncode \/ BenDecode

\* C27: for every value built from integers (negative and zero included),
\* byte strings (empty ones and ones holding the bytes "e", ":" and digits
\* included), lists, and dicts with byte-string keys, decoding the encoding
\* gives the value back.
C27_RoundTrip ==
    ben.stage = "decoded" => ~ben.raised /\ ben.out = ben.value

C27_Witness ==
    /\ ben.stage = "decoded"
    /\ ben.out = ben.value
    /\ ben.value =
         BenDict({[k |-> BenBytes(<<Ascii.e>>),
                   val |-> BenList(<<BenBytes(<<Ascii.e>>)>>)],
                  [k |-> BenBytes(<<>>), val |-> BenInt(0 - 1)]})

(***************************************************************************)
(* The geohash utilities of sharding.py.  Degrees are counted in units of  *)
(* which Deg90 make 90 degrees; Deg90 is the power of two for which every  *)
(* midpoint, cell centre and cell size up to MaxPrecision is a whole       *)
(* number of units (in the program they are binary fractions of 45         *)
(* degrees, which the floats hold exactly).  A geohash is the sequence of  *)
(* its characters.                                                         *)
(***************************************************************************)
MaxPrecision == 2

BASE32 ==
    <<"0", "1", "2", "3", "4", "5", "6", "7", "8", "9", "b", "c", "d", "e",
      "f", "g", "h", "j", "k", "m", "n", "p", "q", "r", "s", "t", "u", "v",
      "w", "x", "y", "z">>

RECURSIVE Pow2(_)
Pow2(n) == IF n = 0 THEN 1 ELSE 2 * Pow2(n - 1)

Deg90 == Pow2((5 * MaxPrecision) \div 2)

RECURSIVE EncodeFrom(_, _, _, _, _, _, _, _, _)
\* The while loop of encode_geohash, from the state of its local variables
EncodeFrom(lat, lon, precision, lat_range, lon_range, geohash, bits, bit_count, is_lon) ==
    IF Len(geohash) >= precision THEN geohash
    ELSE LET rng == IF is_lon THEN lon_range ELSE lat_range
             x == IF is_lon THEN lon ELSE lat
             mid == (rng[1] + rng[2]) \div 2
             hi == x >= mid
             nbits == IF hi THEN bits * 2 + 1 ELSE bits * 2
             nrng == IF hi THEN <<mid, rng[2]>> ELSE <<rng[1], mid>>
             full == bit_count + 1 = 5
         IN EncodeFrom(lat, lon, precision,
                       IF is_lon THEN lat_range ELSE nrng,
                       IF is_lon THEN nrng ELSE lon_range,
                       IF full THEN Append(geohash, BASE32[nbits + 1])
                       ELSE geohash,
                       IF full THEN 0 ELSE nbits,
                       IF full THEN 0 ELSE bit_count + 1,
                       ~is_lon)

\* encode_geohash(lat, lon, precision)
EncodeGeohash(lat, lon, precision) ==
    EncodeFrom(lat, lon, precision, <<0 - Deg90, Deg90>>,
               <<0 - 2 * Deg90, 2 * Deg90>>, <<>>, 0, 0, TRUE)

\* BASE32.index(char)
Base32Index(char) == (CHOOSE i \in DOMAIN BASE32 : BASE32[i] = char) - 1

\* (idx >> i) & 1
BitOf(idx, i) == (idx \div Pow2(i)) % 2

RECURSIVE DecodeFrom(_, _, _, _, _)
\* The loops of decode_geohash: bit number k (4 down to 0) of the first
\* character of what is left of the geohash
DecodeFrom(geohash, k, lat_range, lon_range, is_lon) ==
    IF geohash = <<>> THEN <<lat_range, lon_range>>
    ELSE LET bit == BitOf(Base32Index(Head(geohash)), k)
             rng == IF is_lon THEN lon_range ELSE lat_range
             mid == (rng[1] + rng[2]) \div 2
             nrng == IF bit = 1 THEN <<mid, rng[2]>> ELSE <<rng[1], mid>>
         IN DecodeFrom(IF k = 0 THEN Tail(geohash) ELSE geohash,
                       IF k = 0 THEN 4 ELSE k - 1,
                       IF is_lon THEN lat_range ELSE nrng,
                       IF is_lon THEN nrng ELSE lon_range,
                       ~is_lon)

\* decode_geohash(geohash): the centre of the cell
DecodeGeohash(geohash) ==
    LET r == DecodeFrom(geohash, 4, <<0 - Deg90, Deg90>>,
                        <<0 - 2 * Deg90, 2 * Deg90>>, TRUE)
    IN [lat |-> (r[1][1] + r[1][2]) \div 2, lon |-> (r[2][1] + r[2][2]) \div 2]

Min(a, b) == IF a <= b THEN a ELSE b

\* get_geohash_neighbors(geohash)
GetGeohashNeighbors(geohash) ==
    LET c == DecodeGeohash(geohash)
        precision == Len(geohash)
        lat_delta == (2 * Deg90) \div Pow2((precision * 5) \div 2)
        lon_delta == (4 * Deg90) \div Pow2((precision * 5 + 1) \div 2)
        steps == <<<<0 - lat_delta, 0 - lon_delta>>, <<0 - lat_delta, 0>>,
                   <<0 - lat_delta, lon_delta>>, <<0, 0 - lon_delta>>,
                   <<0, lon_delta>>, <<lat_delta, 0 - lon_delta>>,
                   <<lat_delta, 0>>, <<lat_delta, lon_delta>>>>
        Cell(d) ==
            LET nlat == c.lat + d[1]
                nlon == c.lon + d[2]
                wlon == IF nlon > 2 * Deg90 THEN nlon - 4 * Deg90
                        ELSE IF nlon < 0 - 2 * Deg90 THEN nlon + 4 * Deg90
                        ELSE nlon
                clat == Max(0 - Deg90, Min(Deg90, nlat))
            IN EncodeGeohash(clat, wlon, precision)
    IN [i \in 1..Len(steps) |-> Cell(steps[i])]

GeoStart(lat, lon, precision) ==
    [stage |-> "position", lat |-> lat, lon |-> lon, precision |-> precision,
     cell |-> <<>>, neighbors |-> <<>>]

GeoIdle == geo = GeoStart(0, 0, 1)

GeoInit ==
    geo \in {GeoStart(lat, lon, p) : lat \in (0 - Deg90)..Deg90,
                                      lon \in (0 - 2 * Deg90)..(2 * Deg90),
                                      p \in 1..MaxPrecision}

\* encode_geohash(lat, lon, precision) of a position
GeoEncode ==
    /\ geo.stage = "position"
    /\ geo' = [geo EXCEPT !.stage = "cell",
                 !.cell = EncodeGeohash(geo.lat, geo.lon, geo.precision)]
    /\ UNCHANGED ben
    /\ UNCHANGED <<now, ticks, proofVars, nodeVars, storeVars, decayVars, wsVars,
                   loopVars, dhtVars, discVars, submitVars, staleVars, syncVars, gossipVars, shardVars, queryVars, liveVars>>

\* get_geohash_neighbors of the cell
GeoNeighbors ==
    /\ geo.stage = "cell"
    /\ geo' = [geo EXCEPT !.stage = "neighbors",
                          !.neighbors = GetGeohashNeighbors(geo.cell)]
    /\ UNCHANGED ben
    /\ UNCHANGED <<now, ticks, proofVars, nodeVars, storeVars, decayVars, wsVars,
                   loopVars, dhtVars, discVars, submitVars, staleVars, syncVars, gossipVars, shardVars, queryVars, liveVars>>

NextGeo == GeoEncode \/ GeoNeighbors

\* C28: for every position and precision the neighbours of the cell of the
\* position are exactly 8 cells of the same precision, pairwise distinct
\* and none equal to the cell itself, the top and bottom rows and the
\* +/-180 seam included.
C28_EightDistinct ==
    geo.stage = "neighbors" =>
        /\ Len(geo.neighbors) = 8
        /\ \A i \in DOMAIN geo.neighbors :
              /\ Len(geo.neighbors[i]) = geo.precision
              /\ geo.neighbors[i] # geo.cell
              /\ \A j \in DOMAIN geo.neighbors :
                    geo.neighbors[i] = geo.neighbors[j] => i = j

(***************************************************************************)
(* One node's submission path in detail: submit_traceroute and             *)
(* _store_and_broadcast_traceroute with every hop of the trace, the item   *)
(* handed to the sharded storage, the trace-received listener and the      *)
(* POSTs of the broadcast, one per peer.                                   *)
(***************************************************************************)
MaxHops == 2

MaxSbSubmits == 2

PermanentReplication == 5

TransientReplication == 3

SbPeerIds == {"Y", "Z"}

HopShapes == {"null_geo", "no_coords", "transient", "permanent"}

\* traceroute_data["hops"]: hop number i has the shape hops[i]
SbHopLists == UNION {[1..n -> HopShapes] : n \in 0..MaxHops}

NoSubmission ==
    [tid |-> 0, hops |-> <<>>, raised |-> "none", peers |-> {}]

SubmitIdle ==
    /\ sb_share = FALSE
    /\ sb_peers = {}
    /\ sb_cached = {}
    /\ sb_items = {}
    /\ sb_listener = {}
    /\ sb_posts = {}
    /\ sb_last = NoSubmission

\* ShardedData(...) of _store_and_broadcast_traceroute for hop number i
ShardedHop(tid, i, permanent) ==
    [data_id |-> <<tid, i>>,
     data_type |-> IF permanent THEN "infrastructure" ELSE "traceroute",
     is_permanent |-> permanent,
     replication_factor |-> IF permanent THEN PermanentReplication
                            ELSE TransientReplication]

\* The `break` that follows `await self._sharded_storage.store(sharded)`
StopsAfterStore(shape) == shape \in {"transient", "permanent"}

RECURSIVE HopLoop(_, _, _, _)
\* The hop loop of _store_and_broadcast_traceroute from hop number i on:
\* the items stored and the exception that ended it, if any.  A null "geo"
\* raises AttributeError at geo.get; a hop without coordinates is skipped;
\* a located hop is stored, and storing a transient one ends in the
\* KeyError of SharedTraceroute.from_dict(hop) in the storage's callback.
HopLoop(tid, hops, i, items) ==
    IF i > Len(hops) THEN [items |-> items, raised |-> "none"]
    ELSE IF hops[i] = "null_geo"
    THEN [items |-> items, raised |-> "AttributeError"]
    ELSE IF hops[i] = "no_coords" THEN HopLoop(tid, hops, i + 1, items)
    ELSE LET stored == items \cup {ShardedHop(tid, i, hops[i] = "permanent")}
         IN IF hops[i] = "transient"
            THEN [items |-> stored, raised |-> "KeyError"]
            ELSE IF StopsAfterStore(hops[i])
            THEN [items |-> stored, raised |-> "none"]
            ELSE HopLoop(tid, hops, i + 1, stored)

\* P2PNode.set_sharing_enabled
SbSetSharing(enabled) ==
    /\ sb_share # enabled
    /\ sb_share' = enabled
    /\ UNCHANGED <<sb_peers, sb_cached, sb_items, sb_listener, sb_posts, sb_last>>
    /\ UNCHANGED <<now, ticks, proofVars, nodeVars, storeVars, decayVars, wsVars,
                   loopVars, dhtVars, discVars, pureVars, staleVars, syncVars, gossipVars, shardVars, queryVars, liveVars>>

\* P2PNode._update_peer for a peer heard of, and the passing of time that
\* makes its entry stale
SbPeerSeen(p, stale) ==
    /\ sb_peers' = {e \in sb_peers : e.peer_id # p}
                      \cup {[peer_id |-> p, stale |-> stale]}
    /\ sb_peers' # sb_peers
    /\ UNCHANGED <<sb_share, sb_cached, sb_items, sb_listener, sb_posts, sb_last>>
    /\ UNCHANGED <<now, ticks, proofVars, nodeVars, storeVars, decayVars, wsVars,
                   loopVars, dhtVars, discVars, pureVars, staleVars, syncVars, gossipVars, shardVars, queryVars, liveVars>>

\* P2PNode.submit_traceroute with sharing enabled, up to the end of
\* _store_and_broadcast_traceroute; the POST to a peer of `down` fails.
SbSubmit(hops, down) ==
    LET tid == sb_last.tid + 1
        loop == HopLoop(tid, hops, 1, {})
        live == {e.peer_id : e \in {x \in sb_peers : ~x.stale}}
    IN /\ sb_share
       /\ sb_last.tid < MaxSbSubmits
       /\ sb_cached' = sb_cached \cup {tid}
       /\ sb_items' = sb_items \cup loop.items
       /\ sb_listener' = IF loop.raised = "none"
                         THEN sb_listener \cup {tid} ELSE sb_listener
       /\ sb_posts' = IF loop.raised = "none"
                      THEN sb_posts \cup
                             {[tid |-> tid, to |-> p, ok |-> p \notin down] :
                                 p \in live}
                      ELSE sb_posts
       /\ sb_last' = [tid |-> tid, hops |-> hops, raised |-> loop.raised,
                      peers |-> live]
       /\ UNCHANGED <<sb_share, sb_peers>>
       /\ UNCHANGED <<now, ticks, proofVars, nodeVars, storeVars, decayVars, wsVars,
                      loopVars, dhtVars, discVars, pureVars, staleVars, syncVars, gossipVars, shardVars, queryVars, liveVars>>

NextSubmit ==
    \/ \E b \in BOOLEAN : SbSetSharing(b)
    \/ \E p \in SbPeerIds : \E stale \in BOOLEAN : SbPeerSeen(p, stale)
    \/ \E hops \in SbHopLists : \E down \in SUBSET SbPeerIds :
          SbSubmit(hops, down)

\* C29: with sharing enabled every submitted trace, whatever its hops, is
\* cached in the shared-trace set, reported to the trace-received listener
\* and POSTed to every known non-stale peer; a failure while a hop is
\* persisted or while one peer is sent to does not keep the broadcast from
\* the other peers.
C29_AlwaysBroadcast ==
    sb_last.tid # 0 =>
        /\ sb_last.tid \in sb_cached
        /\ sb_last.tid \in sb_listener
        /\ \A p \in sb_last.peers :
              \E m \in sb_posts : m.tid = sb_last.tid /\ m.to = p

\* C30: every hop of a submitted trace that is classified as permanent
\* infrastructure is held by the sharded storage as a permanent item whose
\* replication factor is greater than that of transient trace items, the
\* hops after the first located one included.
C30_EveryPermanentHop ==
    sb_last.tid # 0 =>
        \A i \in DOMAIN sb_last.hops :
            sb_last.hops[i] = "permanent" =>
                \E d \in sb_items :
                    /\ d.data_id = <<sb_last.tid, i>>
                    /\ d.is_permanent
                    /\ d.data_type = "infrastructure"
                    /\ d.replication_factor > TransientReplication

(***************************************************************************)
(* Peer staleness at one node.  Node X hears announcements, merges the     *)
(* entries of pulled peer lists, has its own gossip answered, and runs the *)
(* maintenance pass.  `contact` records, next to the table, when X last    *)
(* heard from a peer or first learned of it.                               *)
(***************************************************************************)
MaxStaleTicks == 2

StaleTickSteps == {200, 700}

\* How old the last_seen of a pulled entry is: _handle_get_peers lists only
\* peers that are not stale at the sender.
ListAges == {0, 500}

\* The peers node X can hear of.
StalePeerIds == {"Y", "Z"}

StaleIdle == contact = [p \in StalePeerIds |-> 0]

\* P2PNode._handle_announce -> _update_peer(data): an announcement from p
AnnounceHeard(p) ==
    /\ resp = NoResp
    /\ peers' = [peers EXCEPT ![Receiver] =
                    UpdatePeer(@, Receiver, [peer_id |-> p, last_seen |-> NoKey], now)]
    /\ contact' = [contact EXCEPT ![p] = now]
    /\ UNCHANGED <<now, ticks, proofVars, storeVars, decayVars, wsVars, loopVars,
                   dhtVars, discVars, pureVars, submitVars, syncVars, gossipVars, shardVars, queryVars, liveVars>>
    /\ UNCHANGED <<share, shared, count, tokens, net, nextId, nextOrigin,
                   nextTok, subs, resp>>

\* P2PNode._request_peers: one entry of a pulled list, about peer p, whose
\* last_seen is the sender's
PeerListMerged(p, age) ==
    /\ resp = NoResp
    /\ peers' = [peers EXCEPT ![Receiver] =
                    UpdatePeer(@, Receiver,
                               [peer_id |-> p, last_seen |-> now - age], now)]
    /\ contact' = IF p \in PeerIdsOf(peers[Receiver]) THEN contact
                  ELSE [contact EXCEPT ![p] = now]
    /\ UNCHANGED <<now, ticks, proofVars, storeVars, decayVars, wsVars, loopVars,
                   dhtVars, discVars, pureVars, submitVars, syncVars, gossipVars, shardVars, queryVars, liveVars>>
    /\ UNCHANGED <<share, shared, count, tokens, net, nextId, nextOrigin,
                   nextTok, subs, resp>>

\* P2PNode._gossip: peer p answered the announce with 200
GossipAnswered(p) ==
    /\ resp = NoResp
    /\ p \in PeerIdsOf(peers[Receiver])
    /\ peers' = [peers EXCEPT ![Receiver] =
                    [i \in 1 .. Len(@) |->
                        IF @[i].peer_id = p
                        THEN [@[i] EXCEPT !.last_seen = now] ELSE @[i]]]
    /\ contact' = [contact EXCEPT ![p] = now]
    /\ UNCHANGED <<now, ticks, proofVars, storeVars, decayVars, wsVars, loopVars,
                   dhtVars, discVars, pureVars, submitVars, syncVars, gossipVars, shardVars, queryVars, liveVars>>
    /\ UNCHANGED <<share, shared, count, tokens, net, nextId, nextOrigin,
                   nextTok, subs, resp>>

\* The clock advances.
StaleTick(d) ==
    /\ resp = NoResp
    /\ ticks < MaxStaleTicks
    /\ now' = now + d
    /\ ticks' = ticks + 1
    /\ UNCHANGED <<proofVars, storeVars, decayVars, wsVars, loopVars, dhtVars,
                   discVars, pureVars, submitVars, staleVars, syncVars, gossipVars, shardVars, queryVars, liveVars>>
    /\ UNCHANGED <<share, peers, shared, count, tokens, net, nextId, nextOrigin,
                   nextTok, subs, resp>>

NextStale ==
    \/ \E p \in StalePeerIds : AnnounceHeard(p)
    \/ \E p \in StalePeerIds, age \in ListAges : PeerListMerged(p, age)
    \/ \E p \in StalePeerIds : GossipAnswered(p)
    \/ RemoveStalePeers(Receiver)
    \/ Respond
    \/ \E d \in StaleTickSteps : StaleTick(d)

\* C31: the maintenance pass evicts a peer only when the node has had no
\* contact with it for longer than the peer timeout; a peer first learned at
\* time t, by announce or from a pulled peer list, is not evicted before
\* t + timeout.
C31_EvictedOnlyAfterTimeout ==
    resp.kind = "peer_lost" =>
        \A e \in resp.peers : now - contact[e.peer_id] > P2P_PEER_TIMEOUT

(***************************************************************************)
(* The data-sync loop of one node.  The node's peers are outside the       *)
(* model: each one either answers GET /p2p/sync with status 200 and a list *)
(* of traces, or the request fails (refused, timed out, not 200).          *)
(***************************************************************************)
MaxSyncPeers == 6

MaxSyncTicks == 1

SyncTickSteps == {700, 86400}

\* Which peers answer a request: those from number k on, or every second one.
SyncAnswers ==
    {[p \in 1 .. MaxSyncPeers |-> IF p >= k THEN "ok" ELSE "fail"] :
        k \in 1 .. MaxSyncPeers + 1}
       \cup {[p \in 1 .. MaxSyncPeers |-> IF p % 2 = 0 THEN "ok" ELSE "fail"]}

SyTrace(tid, ts, src) == [tid |-> tid, ts |-> ts, src |-> src]

\* The traces an answering peer may list: one under an id the node may hold,
\* one new, one older than max-age (the peer's clock is its own).
RemoteTraces(t) ==
    {SyTrace(1, t, "remote"), SyTrace(3, t, "remote"),
     SyTrace(4, t - TRACEROUTE_MAX_AGE, "remote")}

\* The traces a broadcast may carry to the node.
PushedTraces(t) ==
    {SyTrace(1, t, "pushed"), SyTrace(2, t - TRACEROUTE_MAX_AGE + 700, "pushed")}

NoSync ==
    [ran |-> FALSE, share |-> FALSE, npeers |-> 0, asked |-> <<>>,
     results |-> <<>>, before |-> {}, after |-> {}, at |-> 0]

SyncIdle ==
    /\ sy_share = FALSE
    /\ sy_peers = <<>>
    /\ sy_traces = {}
    /\ sy_last = NoSync

\* A variant of the merge that lets the pulled trace replace the held one.
MergePulledOver(held, pulled) == {x \in held : x.tid \notin {y.tid : y \in pulled}} \cup pulled

\* if tr.traceroute_id not in self._shared_traceroutes: ...[id] = tr
MergePulled(held, pulled) == held \cup {x \in pulled : x.tid \notin {y.tid : y \in held}}

RECURSIVE SyncLoop(_, _, _, _, _)
\* The for loop of P2PNode.request_full_sync over list(peers)[:5]: the peers
\* asked, their answers, and the trace set afterwards.
SyncLoop(cands, answers, offer, held, log) ==
    IF cands = <<>> THEN [traces |-> held, asked |-> log.asked, results |-> log.results]
    ELSE LET peer == Head(cands)
         IN IF IsStale(peer, now)
            THEN SyncLoop(Tail(cands), answers, offer, held, log)
            ELSE LET a == answers[peer.peer_id]
                     l == [asked |-> Append(log.asked, peer.peer_id),
                           results |-> Append(log.results, a)]
                 IN IF a = "ok"
                    THEN [traces |-> MergePulled(held, offer), asked |-> l.asked,
                          results |-> l.results]
                    ELSE SyncLoop(Tail(cands), answers, offer, held, l)

\* P2PNode.request_full_sync
RequestFullSync(answers, offer) ==
    SyncLoop(Prefix(sy_peers, SYNC_FANOUT), answers, offer, sy_traces,
             [asked |-> <<>>, results |-> <<>>])

\* One iteration of P2PNode._data_sync_loop
DataSyncIteration(answers, offer) ==
    /\ sy_last = NoSync
    /\ IF sy_share /\ sy_peers # <<>>
       THEN LET r == RequestFullSync(answers, offer)
            IN /\ sy_traces' = CleanupOld(r.traces, now)
               /\ sy_last' = [ran |-> TRUE, share |-> sy_share,
                              npeers |-> Len(sy_peers), asked |-> r.asked,
                              results |-> r.results, before |-> sy_traces,
                              after |-> CleanupOld(r.traces, now), at |-> now]
       ELSE /\ sy_traces' = sy_traces
            /\ sy_last' = [NoSync EXCEPT !.share = sy_share,
                                         !.npeers = Len(sy_peers),
                                         !.before = sy_traces,
                                         !.after = sy_traces, !.at = now]
    /\ UNCHANGED <<sy_share, sy_peers>>
    /\ UNCHANGED <<now, ticks, proofVars, nodeVars, storeVars, decayVars, wsVars,
                   loopVars, dhtVars, discVars, pureVars, submitVars, staleVars, gossipVars, shardVars, queryVars, liveVars>>

\* P2PNode.set_sharing_enabled
SySetSharing(enabled) ==
    /\ sy_last = NoSync
    /\ sy_share # enabled
    /\ sy_share' = enabled
    /\ UNCHANGED <<sy_peers, sy_traces, sy_last>>
    /\ UNCHANGED <<now, ticks, proofVars, nodeVars, storeVars, decayVars, wsVars,
                   loopVars, dhtVars, discVars, pureVars, submitVars, staleVars, gossipVars, shardVars, queryVars, liveVars>>

\* P2PNode._update_peer for an announcement of a peer not yet in the table
SyPeerAnnounced ==
    /\ sy_last = NoSync
    /\ Len(sy_peers) < MaxSyncPeers
    /\ sy_peers' = Append(sy_peers, [peer_id |-> Len(sy_peers) + 1, last_seen |-> now])
    /\ UNCHANGED <<sy_share, sy_traces, sy_last>>
    /\ UNCHANGED <<now, ticks, proofVars, nodeVars, storeVars, decayVars, wsVars,
                   loopVars, dhtVars, discVars, pureVars, submitVars, staleVars, gossipVars, shardVars, queryVars, liveVars>>

\* P2PNode._handle_broadcast
SyBroadcastReceived(tr) ==
    /\ sy_last = NoSync
    /\ sy_share
    /\ sy_traces' = PutTrace(sy_traces, tr)
    /\ UNCHANGED <<sy_share, sy_peers, sy_last>>
    /\ UNCHANGED <<now, ticks, proofVars, nodeVars, storeVars, decayVars, wsVars,
                   loopVars, dhtVars, discVars, pureVars, submitVars, staleVars, gossipVars, shardVars, queryVars, liveVars>>

\* The clock advances.
SyncTick(d) ==
    /\ sy_last = NoSync
    /\ ticks < MaxSyncTicks
    /\ now' = now + d
    /\ ticks' = ticks + 1
    /\ UNCHANGED <<proofVars, nodeVars, storeVars, decayVars, wsVars, loopVars,
                   dhtVars, discVars, pureVars, submitVars, staleVars, syncVars, gossipVars, shardVars, queryVars, liveVars>>

\* The iteration is over: await asyncio.sleep(300)
SyncSleeps ==
    /\ sy_last # NoSync
    /\ sy_last' = NoSync
    /\ UNCHANGED <<sy_share, sy_peers, sy_traces>>
    /\ UNCHANGED <<now, ticks, proofVars, nodeVars, storeVars, decayVars, wsVars,
                   loopVars, dhtVars, discVars, pureVars, submitVars, staleVars, gossipVars, shardVars, queryVars, liveVars>>

NextSync ==
    \/ SyncSleeps
    \/ \E answers \in SyncAnswers, offer \in SUBSET RemoteTraces(now) : DataSyncIteration(answers, offer)
    \/ \E b \in BOOLEAN : SySetSharing(b)
    \/ SyPeerAnnounced
    \/ \E tr \in PushedTraces(now) : SyBroadcastReceived(tr)
    \/ \E d \in SyncTickSteps : SyncTick(d)

MyPeerId == CHOOSE p \in 1 .. HashSpace : PeerHash(p) = node_id_int

\* Peer tables handed to update_peers; 2 and 7 are the ids a node may have.
ReplicaPeers == {1, 2, 3, 7}

\* What a POST to a peer gives: a status, or 0 for an exception.
StoreAnswers == {200, 500, 0}

RECURSIVE ReplicateLoopStops(_, _, _)
\* A variant of the loop that gives up at the first target that fails.
ReplicateLoopStops(responsible, answers, acc) ==
    IF responsible = <<>> THEN acc
    ELSE LET p == Head(responsible)
         IN IF p = MyPeerId
            THEN ReplicateLoopStops(Tail(responsible), answers, acc)
            ELSE IF answers[p] # 200
            THEN [posted |-> Append(acc.posted, p), stored |-> acc.stored]
            ELSE ReplicateLoopStops(Tail(responsible), answers,
                    [posted |-> Append(acc.posted, p), stored |-> acc.stored + 1])

RECURSIVE ReplicateLoop(_, _, _)
\* The for loop of store_and_replicate over the responsible nodes: the peers
\* posted to and the number of status-200 answers.
ReplicateLoop(responsible, answers, acc) ==
    IF responsible = <<>> THEN acc
    ELSE LET p == Head(responsible)
         IN IF p = MyPeerId
            THEN ReplicateLoop(Tail(responsible), answers, acc)
            ELSE ReplicateLoop(Tail(responsible), answers,
                    [posted |-> Append(acc.posted, p),
                     stored |-> IF answers[p] = 200 THEN acc.stored + 1
                                ELSE acc.stored])

\* ShardedStorage.store_and_replicate
StoreAndReplicate(item, answers) ==
    /\ sres = NoResult
    /\ LET st == StoreOutcome(item, local_data, infrastructure_cache)
           responsible == GetResponsibleNodes(ShardKey(item), peer_addresses,
                                              item.replication_factor)
           r == ReplicateLoop(responsible, answers,
                              [posted |-> <<>>, stored |-> 0])
       IN /\ local_data' = st.local
          /\ infrastructure_cache' = st.infra
          /\ sres' = [NoResult EXCEPT
                        !.op = "store_and_replicate", !.ok = st.ok, !.arg = item,
                        !.count = (IF st.ok THEN 1 ELSE 0) + r.stored,
                        !.nodes = r.posted,
                        !.input = {p \in peer_addresses : answers[p] = 200}]
    /\ UNCHANGED <<now, ticks, node_id_int, peer_addresses, viewed_shards>>
    /\ UNCHANGED <<proofVars, nodeVars, decayVars, wsVars, loopVars, dhtVars,
                   discVars, pureVars, submitVars, staleVars, syncVars, gossipVars, shardVars, queryVars, liveVars>>

NextReplicate ==
    \/ \E ps \in SUBSET ReplicaPeers : UpdatePeerAddresses(ps)
    \/ \E item \in Catalogue(now), answers \in [peer_addresses -> StoreAnswers] : StoreAndReplicate(item, answers)
    \/ Return

MaxGossipPeers == 6

MaxGossipTicks == 1

GossipTickSteps == {P2P_GOSSIP_INTERVAL}

\* The ports the socket may end up on: the one asked for, or one the system
\* chose (requested port 0).
BoundPorts == {8765, 49152}

\* The peers in the order they announce themselves to X.
GossipJoinOrder == <<"P1", "P2", "P3", "P4", "P5", "P6", "P7">>

GossipPeerIds == Range(GossipJoinOrder)

\* What the i-th peer contacted does: "ok" answers the announce with 200 and
\* hands out its peer list, "nopull" answers 200 and fails the list request,
\* "fail" does not answer the announce with 200.
GossipAnswers ==
    {[i \in 1 .. MaxGossipPeers + 1 |-> "ok"],
     [i \in 1 .. MaxGossipPeers + 1 |-> "fail"],
     [i \in 1 .. MaxGossipPeers + 1 |-> IF i % 3 = 1 THEN "fail"
                                        ELSE IF i % 3 = 2 THEN "nopull" ELSE "ok"],
     [i \in 1 .. MaxGossipPeers + 1 |-> IF i % 2 = 1 THEN "ok" ELSE "fail"]}

\* The peer lists a peer may hand out: they may name X itself, a peer X
\* knows, and a peer X does not know.
GossipLists(t) ==
    {<<>>,
     <<[peer_id |-> "X", last_seen |-> t], [peer_id |-> "P1", last_seen |-> t],
       [peer_id |-> "P7", last_seen |-> t]>>}

NoRound ==
    [ran |-> FALSE, announcement |-> [peer_id |-> "", port |-> 0, proof |-> NoProof],
     table |-> <<>>, posted |-> <<>>, pulled |-> <<>>, answers |-> <<>>, at |-> 0]

GossipIdle ==
    /\ g_port = 0
    /\ g_peers = <<>>
    /\ g_round = NoRound
    /\ g_selected = {}

\* A variant of the selection that contacts the whole table.
GossipTargetsAll(tbl) == tbl

\* list(self._peers.values())[:min(5, len(self._peers))]
GossipTargets(tbl) == Prefix(tbl, GOSSIP_FANOUT)

RECURSIVE GossipLoop(_, _, _, _, _)
\* The for loop of P2PNode._gossip over peers_to_contact: the table
\* afterwards, the peers posted to and the peers asked for their list.
GossipLoop(targets, i, answers, list, acc) ==
    IF i > Len(targets) THEN acc
    ELSE LET p == targets[i].peer_id
             seen == [k \in 1 .. Len(acc.tbl) |->
                         IF acc.tbl[k].peer_id = p
                         THEN [acc.tbl[k] EXCEPT !.last_seen = now]
                         ELSE acc.tbl[k]]
         IN IF answers[i] = "fail"
            THEN GossipLoop(targets, i + 1, answers, list,
                    [acc EXCEPT !.posted = Append(@, p)])
            ELSE IF answers[i] = "nopull"
            THEN GossipLoop(targets, i + 1, answers, list,
                    [tbl |-> seen, posted |-> Append(acc.posted, p),
                     pulled |-> Append(acc.pulled, p)])
            ELSE GossipLoop(targets, i + 1, answers, list,
                    [tbl |-> UpdatePeers(seen, "X", list, now),
                     posted |-> Append(acc.posted, p),
                     pulled |-> Append(acc.pulled, p)])

\* P2PNode._start_server: bind, then read the socket's port
GossipStartServer(bound) ==
    /\ g_port = 0
    /\ g_port' = bound
    /\ UNCHANGED <<g_peers, g_round, g_selected>>
    /\ UNCHANGED <<now, ticks, proofVars, nodeVars, storeVars, decayVars, wsVars,
                   loopVars, dhtVars, discVars, pureVars, submitVars, staleVars,
                   syncVars, shardVars, queryVars, liveVars>>

\* P2PNode._handle_announce -> _update_peer: the next peer announces itself
GossipPeerAnnounced ==
    /\ g_round = NoRound
    /\ g_port # 0
    /\ Len(g_peers) < MaxGossipPeers
    /\ LET p == GossipJoinOrder[
                   CHOOSE k \in 1 .. Len(GossipJoinOrder) :
                      /\ GossipJoinOrder[k] \notin PeerIdsOf(g_peers)
                      /\ \A j \in 1 .. k - 1 :
                            GossipJoinOrder[j] \in PeerIdsOf(g_peers)]
       IN g_peers' = UpdatePeer(g_peers, "X",
                                [peer_id |-> p, last_seen |-> NoKey], now)
    /\ UNCHANGED <<g_port, g_round, g_selected>>
    /\ UNCHANGED <<now, ticks, proofVars, nodeVars, storeVars, decayVars, wsVars,
                   loopVars, dhtVars, discVars, pureVars, submitVars, staleVars,
                   syncVars, shardVars, queryVars, liveVars>>

\* One round of P2PNode._gossip_loop: P2PNode._gossip
GossipRound(answers, list) ==
    /\ g_round = NoRound
    /\ g_port # 0
    /\ g_peers # <<>>
    /\ LET targets == GossipTargets(g_peers)
           my_data == [peer_id |-> "X", port |-> g_port, proof |-> MyProof("X")]
           r == GossipLoop(targets, 1, answers, list,
                           [tbl |-> g_peers, posted |-> <<>>, pulled |-> <<>>])
       IN /\ g_peers' = r.tbl
          /\ g_selected' = g_selected \cup Range(r.posted)
          /\ g_round' = [ran |-> TRUE, announcement |-> my_data,
                         table |-> g_peers, posted |-> r.posted,
                         pulled |-> r.pulled, answers |-> answers, at |-> now]
    /\ UNCHANGED g_port
    /\ UNCHANGED <<now, ticks, proofVars, nodeVars, storeVars, decayVars, wsVars,
                   loopVars, dhtVars, discVars, pureVars, submitVars, staleVars,
                   syncVars, shardVars, queryVars, liveVars>>

\* The round is over: await asyncio.sleep(P2P_GOSSIP_INTERVAL)
GossipSleeps ==
    /\ g_round # NoRound
    /\ g_round' = NoRound
    /\ UNCHANGED <<g_port, g_peers, g_selected>>
    /\ UNCHANGED <<now, ticks, proofVars, nodeVars, storeVars, decayVars, wsVars,
                   loopVars, dhtVars, discVars, pureVars, submitVars, staleVars,
                   syncVars, shardVars, queryVars, liveVars>>

\* The clock advances.
GossipTick(d) ==
    /\ g_round = NoRound
    /\ ticks < MaxGossipTicks
    /\ now' = now + d
    /\ ticks' = ticks + 1
    /\ UNCHANGED <<proofVars, nodeVars, storeVars, decayVars, wsVars, loopVars,
                   dhtVars, discVars, pureVars, submitVars, staleVars, syncVars,
                   gossipVars, shardVars, queryVars, liveVars>>

NextGossip ==
    \/ \E bound \in BoundPorts : GossipStartServer(bound)
    \/ GossipPeerAnnounced
    \/ \E answers \in GossipAnswers, list \in GossipLists(now) : GossipRound(answers, list)
    \/ GossipSleeps
    \/ \E d \in GossipTickSteps : GossipTick(d)

\* A round can start: the server is up, the table is not empty, and the
\* loop is not inside a round.
GossipRoundEnabled == g_round = NoRound /\ g_port # 0 /\ g_peers # <<>>

\* The gossip loop keeps running (while self._running: sleep, then _gossip):
\* a round that is over is followed by the sleep, and a round that can start
\* does start.  The second conjunct is weak fairness of GossipRound written
\* over states: a state with g_round.ran is reached by a round and by
\* nothing else.
GossipFairness ==
    /\ WF_vars(GossipSleeps)
    /\ ([]<>(~GossipRoundEnabled) \/ []<>(g_round.ran))

\* C33: a gossip round posts the node's announcement, with a proof generated
\* in that round and the port the server is bound to, to at most 5 peers of
\* the peer table; it asks a peer for its list only when that peer answered
\* the announce with success; and the table never holds the node itself.
C33_GossipRound ==
    /\ "X" \notin PeerIdsOf(g_peers)
    /\ g_round.ran =>
        /\ g_round.announcement.peer_id = "X"
        /\ g_round.announcement.port = g_port
        /\ g_round.announcement.port \in BoundPorts
        /\ g_round.announcement.proof.payload.ts = g_round.at
        /\ Verify(g_round.announcement.proof, g_round.at).valid
        /\ Len(g_round.posted) <= 5
        /\ Range(g_round.posted) \subseteq PeerIdsOf(g_round.table)
        /\ \A k \in 1 .. Len(g_round.pulled) :
              \E i \in 1 .. Len(g_round.posted) :
                 /\ g_round.posted[i] = g_round.pulled[k]
                 /\ g_round.answers[i] # "fail"

\* A round over a table of more than 5 peers after the clock has advanced:
\* a peer that did not answer was not asked for its list, one that did
\* handed out a list naming X and an unknown peer, which was merged.
C33_Witness ==
    /\ g_round.ran
    /\ g_round.at > StartTime
    /\ Len(g_round.table) > 5
    /\ Len(g_round.posted) = 5
    /\ Len(g_round.pulled) \in 1 .. 4
    /\ "P7" \notin PeerIdsOf(g_round.table)
    /\ "P7" \in PeerIdsOf(g_peers)

\* C40: under fair scheduling of the gossip loop every peer that is in the
\* table is eventually selected as a gossip target in some round: the table
\* only grows, so at some point every peer in it has been selected.
C40_EveryPeerSelected ==
    (g_peers # <<>>) ~> (PeerIdsOf(g_peers) \subseteq g_selected)

(***************************************************************************)
(* Trace identity across the network of nodes (specification Spec).        *)
(***************************************************************************)
\* C38: one submission yields one trace identity network-wide: once every
\* message that resulted from the submissions has been delivered, no node's
\* shared-trace set holds the same submitted trace under two trace ids.
C38_OneTraceIdentity ==
    net = {} =>
        \A n \in Node : \A x, y \in shared[n] : x.origin = y.origin => x.tid = y.tid

(***************************************************************************)
(* The size of the peer table of node X.  Peers are numbered in the order  *)
(* they announce themselves; X itself is number 0.                         *)
(***************************************************************************)
P2P_MAX_PEERS == 50

MaxCapTicks == 1

CapTickSteps == {P2P_PEER_TIMEOUT + 100}

\* The peers that may announce themselves: one more than the table may hold.
CapPeerIds == 1 .. P2P_MAX_PEERS + 1

\* P2PNode._handle_announce -> _update_peer for the next peer not yet known
CapPeerAnnounced ==
    /\ resp = NoResp
    /\ Len(peers[Receiver]) < Cardinality(CapPeerIds)
    /\ LET p == CHOOSE k \in CapPeerIds :
                   /\ k \notin PeerIdsOf(peers[Receiver])
                   /\ \A j \in 1 .. k - 1 : j \in PeerIdsOf(peers[Receiver])
       IN peers' = [peers EXCEPT ![Receiver] =
                       UpdatePeer(@, 0, [peer_id |-> p, last_seen |-> NoKey], now)]
    /\ UNCHANGED <<now, ticks, proofVars, storeVars, decayVars, wsVars, loopVars,
                   dhtVars, discVars, pureVars, submitVars, staleVars, syncVars,
                   gossipVars, shardVars, queryVars, liveVars>>
    /\ UNCHANGED <<share, shared, count, tokens, net, nextId, nextOrigin,
                   nextTok, subs, resp>>

\* P2PNode._handle_announce -> _update_peer for a peer already in the table
CapPeerSeen(p) ==
    /\ resp = NoResp
    /\ p \in PeerIdsOf(peers[Receiver])
    /\ peers' = [peers EXCEPT ![Receiver] =
                    UpdatePeer(@, 0, [peer_id |-> p, last_seen |-> NoKey], now)]
    /\ peers' # peers
    /\ UNCHANGED <<now, ticks, proofVars, storeVars, decayVars, wsVars, loopVars,
                   dhtVars, discVars, pureVars, submitVars, staleVars, syncVars,
                   gossipVars, shardVars, queryVars, liveVars>>
    /\ UNCHANGED <<share, shared, count, tokens, net, nextId, nextOrigin,
                   nextTok, subs, resp>>

\* The clock advances.
CapTick(d) ==
    /\ resp = NoResp
    /\ ticks < MaxCapTicks
    /\ now' = now + d
    /\ ticks' = ticks + 1
    /\ UNCHANGED <<proofVars, storeVars, decayVars, wsVars, loopVars, dhtVars,
                   discVars, pureVars, submitVars, staleVars, syncVars, gossipVars, shardVars, queryVars, liveVars>>
    /\ UNCHANGED <<share, peers, shared, count, tokens, net, nextId, nextOrigin,
                   nextTok, subs, resp>>

NextCap ==
    \/ CapPeerAnnounced
    \/ \E p \in {1} : CapPeerSeen(p)
    \/ RemoveStalePeers(Receiver)
    \/ Respond
    \/ \E d \in CapTickSteps : CapTick(d)

\* C39: the number of entries in the peer table never exceeds P2P_MAX_PEERS.
C39_PeerTableBounded == Len(peers[Receiver]) <= P2P_MAX_PEERS

(***************************************************************************)
(* ShardedStorage.set_my_location and the shard responsibilities it keeps. *)
(* The two geohash precisions of the program (local 5, region 3) are       *)
(* scaled to the grid of the geohash model: the local geohash has          *)
(* MaxPrecision characters and the region prefix one character less.       *)
(***************************************************************************)
LocalPrecision == MaxPrecision

RegionPrecision == MaxPrecision - 1

\* list(DataType)
AllDataTypes == {"traceroute", "peer", "infrastructure", "cell_tower", "mobile_trace"}

\* [DataType.INFRASTRUCTURE, DataType.CELL_TOWER]
InfraDataTypes == {"infrastructure", "cell_tower"}

\* The positions the host application may report: two in adjacent regions
\* of one row, one far away, one in the row below, one at the pole, one in
\* the southern hemisphere.
ShardPositions ==
    {<<5, 5>>, <<5, 20>>, <<5, 0 - 50>>, <<0 - 5, 5>>, <<Deg90, 0>>,
     <<0 - 20, 0 - 40>>}

ShardsIdle ==
    /\ my_geohash = <<>>
    /\ my_shards = {}

\* self._my_shards[prefix] = ShardResponsibility(prefix, data_types)
PutShard(shards, prefix, data_types) ==
    {s \in shards : s.geohash_prefix # prefix}
       \cup {[geohash_prefix |-> prefix, data_types |-> data_types]}

RECURSIVE AddNeighbors(_, _)
\* for neighbor in get_geohash_neighbors(local_prefix):
\*     if neighbor not in self._my_shards: self._my_shards[neighbor] = ...
AddNeighbors(shards, neighbors) ==
    IF neighbors = <<>> THEN shards
    ELSE IF \E s \in shards : s.geohash_prefix = Head(neighbors)
    THEN AddNeighbors(shards, Tail(neighbors))
    ELSE AddNeighbors(PutShard(shards, Head(neighbors), InfraDataTypes),
                      Tail(neighbors))

\* ShardedStorage._update_shard_responsibility for own geohash g
UpdateShardResponsibility(shards, g) ==
    IF g = <<>> THEN shards
    ELSE LET local_prefix == Prefix(g, RegionPrecision)
         IN AddNeighbors(PutShard(shards, local_prefix, AllDataTypes),
                         GetGeohashNeighbors(local_prefix))

\* ShardedStorage.set_my_location
SetMyLocation(lat, lon) ==
    /\ my_geohash' = EncodeGeohash(lat, lon, LocalPrecision)
    /\ my_shards' = UpdateShardResponsibility(my_shards, my_geohash')
    /\ UNCHANGED <<now, ticks, proofVars, nodeVars, storeVars, decayVars, wsVars,
                   loopVars, dhtVars, discVars, pureVars, submitVars, staleVars,
                   syncVars, gossipVars, queryVars, liveVars>>

NextShards == \E pos \in ShardPositions : SetMyLocation(pos[1], pos[2])

\* C35: after any sequence of set_my_location calls the shard
\* responsibilities are exactly those of the latest location: all data types
\* for the node's own region prefix, infrastructure and cell towers only for
\* the neighbours of that region, and no other entry.
C35_LatestLocationOnly ==
    my_geohash # <<>> =>
        LET local_prefix == Prefix(my_geohash, RegionPrecision)
            neighbors == Range(GetGeohashNeighbors(local_prefix)) \ {local_prefix}
        IN /\ {s.geohash_prefix : s \in my_shards} = {local_prefix} \cup neighbors
           /\ \A s \in my_shards :
                 s.data_types = IF s.geohash_prefix = local_prefix
                                THEN AllDataTypes ELSE InfraDataTypes

(***************************************************************************)
(* A region query across nodes.  Every node runs a ShardedStorage behind   *)
(* GET /p2p/shard/query; none of them holds data for the prefix asked.     *)
(* A handler that is waiting for a peer's answer stays in the chain.       *)
(***************************************************************************)
MaxQueryDepth == 4

QueryNodes == {1, 2, 3}

\* The shard key _fetch_from_network builds for the prefix, any data type.
QueryKey == [prefix |-> <<1>>, type |-> "all"]

QueryIdle ==
    /\ sq_peers = [n \in QueryNodes |-> {}]
    /\ sq_chain = <<>>
    /\ sq_sent = 0

\* The peers _fetch_from_network of node n asks, in order:
\* self._router.get_responsible_nodes(shard_key, all_peers, 3)[:3]
QueryTargets(n) ==
    Prefix(GetResponsibleNodes(QueryKey, sq_peers[n], 3), FETCH_FANOUT)

\* The handler that is running: the innermost one.
QueryTop == sq_chain[Len(sq_chain)]

\* ShardedStorage.update_peers at node n
QueryUpdatePeers(n, ps) ==
    /\ sq_chain = <<>>
    /\ sq_peers[n] # ps
    /\ sq_peers' = [sq_peers EXCEPT ![n] = ps]
    /\ UNCHANGED <<sq_chain, sq_sent>>
    /\ UNCHANGED <<now, ticks, proofVars, nodeVars, storeVars, decayVars, wsVars,
                   loopVars, dhtVars, discVars, pureVars, submitVars, staleVars,
                   syncVars, gossipVars, shardVars, liveVars>>

\* get_by_geohash is called at node n (a map client, or the node itself):
\* the local results are sparse (none)
RegionQuery(n) ==
    /\ sq_chain = <<>>
    /\ sq_chain' = <<[node |-> n, next |-> 1]>>
    /\ sq_sent' = 0
    /\ UNCHANGED sq_peers
    /\ UNCHANGED <<now, ticks, proofVars, nodeVars, storeVars, decayVars, wsVars,
                   loopVars, dhtVars, discVars, pureVars, submitVars, staleVars,
                   syncVars, gossipVars, shardVars, liveVars>>

\* _fetch_from_network of the running handler sends GET /p2p/shard/query to
\* its next target, whose _handle_shard_query calls get_by_geohash
FetchFromPeer ==
    /\ sq_chain # <<>>
    /\ Len(sq_chain) < MaxQueryDepth
    /\ QueryTop.next <= Len(QueryTargets(QueryTop.node))
    /\ sq_chain' = Append([sq_chain EXCEPT ![Len(sq_chain)].next = @ + 1],
                          [node |-> QueryTargets(QueryTop.node)[QueryTop.next],
                           next |-> 1])
    /\ sq_sent' = sq_sent + 1
    /\ UNCHANGED sq_peers
    /\ UNCHANGED <<now, ticks, proofVars, nodeVars, storeVars, decayVars, wsVars,
                   loopVars, dhtVars, discVars, pureVars, submitVars, staleVars,
                   syncVars, gossipVars, shardVars, liveVars>>

\* The request of the running handler to its next target fails (refused, or
\* the 10 s timeout): the except clause, and on to the next target
FetchFails ==
    /\ sq_chain # <<>>
    /\ QueryTop.next <= Len(QueryTargets(QueryTop.node))
    /\ sq_chain' = [sq_chain EXCEPT ![Len(sq_chain)].next = @ + 1]
    /\ sq_sent' = sq_sent + 1
    /\ UNCHANGED sq_peers
    /\ UNCHANGED <<now, ticks, proofVars, nodeVars, storeVars, decayVars, wsVars,
                   loopVars, dhtVars, discVars, pureVars, submitVars, staleVars,
                   syncVars, gossipVars, shardVars, liveVars>>

\* The running handler has asked all its targets (or has none): it answers
\* with what it has, which is nothing
QueryAnswers ==
    /\ sq_chain # <<>>
    /\ QueryTop.next > Len(QueryTargets(QueryTop.node))
    /\ sq_chain' = SubSeq(sq_chain, 1, Len(sq_chain) - 1)
    /\ UNCHANGED <<sq_peers, sq_sent>>
    /\ UNCHANGED <<now, ticks, proofVars, nodeVars, storeVars, decayVars, wsVars,
                   loopVars, dhtVars, discVars, pureVars, submitVars, staleVars,
                   syncVars, gossipVars, shardVars, liveVars>>

NextQuery ==
    \/ \E n \in QueryNodes : \E ps \in SUBSET (QueryNodes \ {n}) : QueryUpdatePeers(n, ps)
    \/ \E n \in QueryNodes : RegionQuery(n)
    \/ FetchFromPeer
    \/ FetchFails
    \/ QueryAnswers

\* C36: a region query terminates across nodes: the work a peer does for a
\* shard query never leads back to a node that is already waiting for the
\* answer to that query, so nodes that list each other as peers do not
\* query each other in a cycle.
C36_NoQueryCycle ==
    \A i, j \in 1 .. Len(sq_chain) :
        i < j => sq_chain[i].node # sq_chain[j].node

(***************************************************************************)
(* The live-connection list under concurrent tasks.  self._ws_clients is a *)
(* Python list; every connection has a handler task that appends it and,   *)
(* when the connection ends, removes it; every broadcast is a task that    *)
(* iterates the list and is suspended in each send.  list.remove raises    *)
(* ValueError for an element that is not in the list.                      *)
(***************************************************************************)
MaxLiveConns == 2

LiveConns == 1 .. MaxLiveConns

\* The callers of _broadcast_to_ws_clients that may run at the same time:
\* the handler of an incoming traceroute and a local submission.
BroadcastTasks == {"incoming", "submit"}

IdleTask == [pc |-> "idle", idx |-> 0, dead |-> <<>>]

LiveIdle ==
    /\ wl_list = <<>>
    /\ wl_handlers = {}
    /\ wl_tasks = [t \in BroadcastTasks |-> IdleTask]
    /\ wl_failed = {}
    /\ wl_removed = [c \in LiveConns |-> 0]

\* list.remove(x) for an x that is in the list: the first occurrence goes.
ListRemove(list, x) ==
    LET k == CHOOSE i \in 1 .. Len(list) :
                 list[i] = x /\ \A j \in 1 .. i - 1 : list[j] # x
    IN SubSeq(list, 1, k - 1) \o SubSeq(list, k + 1, Len(list))

RECURSIVE RemoveDead(_, _, _)
\* for ws in dead_clients: self._ws_clients.remove(ws), which stops at the
\* first remove that raises.
RemoveDead(list, dead, done) ==
    IF dead = <<>> THEN [list |-> list, removed |-> done, failed |-> {}]
    ELSE IF Head(dead) \notin Range(list)
    THEN [list |-> list, removed |-> done, failed |-> {Head(dead)}]
    ELSE RemoveDead(ListRemove(list, Head(dead)), Tail(dead),
                    Append(done, Head(dead)))

\* P2PNode._handle_websocket for an admitted client: self._ws_clients.append(ws)
WsHandlerStarts(c) ==
    /\ c \notin wl_handlers
    /\ wl_removed[c] = 0
    /\ \A f \in wl_failed : f.conn # c
    /\ wl_list' = Append(wl_list, c)
    /\ wl_handlers' = wl_handlers \cup {c}
    /\ UNCHANGED <<wl_tasks, wl_failed, wl_removed>>
    /\ UNCHANGED <<now, ticks, proofVars, nodeVars, storeVars, decayVars, wsVars,
                   loopVars, dhtVars, discVars, pureVars, submitVars, staleVars,
                   syncVars, gossipVars, shardVars, queryVars>>

\* The connection ends: the finally clause of P2PNode._handle_websocket
WsHandlerEnds(c) ==
    /\ c \in wl_handlers
    /\ wl_handlers' = wl_handlers \ {c}
    /\ IF c \in Range(wl_list)
       THEN /\ wl_list' = ListRemove(wl_list, c)
            /\ wl_removed' = [wl_removed EXCEPT ![c] = @ + 1]
            /\ UNCHANGED wl_failed
       ELSE /\ wl_failed' = wl_failed \cup {[by |-> "handler", conn |-> c]}
            /\ UNCHANGED <<wl_list, wl_removed>>
    /\ UNCHANGED wl_tasks
    /\ UNCHANGED <<now, ticks, proofVars, nodeVars, storeVars, decayVars, wsVars,
                   loopVars, dhtVars, discVars, pureVars, submitVars, staleVars,
                   syncVars, gossipVars, shardVars, queryVars>>

\* P2PNode._broadcast_to_ws_clients is called: the list is not empty, the
\* for loop creates its iterator
BroadcastStarts(t) ==
    /\ wl_tasks[t].pc = "idle"
    /\ wl_list # <<>>
    /\ wl_tasks' = [wl_tasks EXCEPT ![t] = [pc |-> "loop", idx |-> 1, dead |-> <<>>]]
    /\ UNCHANGED <<wl_list, wl_handlers, wl_failed, wl_removed>>
    /\ UNCHANGED <<now, ticks, proofVars, nodeVars, storeVars, decayVars, wsVars,
                   loopVars, dhtVars, discVars, pureVars, submitVars, staleVars,
                   syncVars, gossipVars, shardVars, queryVars>>

\* One iteration of the for loop of _broadcast_to_ws_clients: the iterator
\* hands out the element at its index of the list as it is now, and the
\* task is suspended in `await ws.send_json(message)`, which returns or
\* raises; or the iterator is exhausted
BroadcastSends(t, raises) ==
    /\ wl_tasks[t].pc = "loop"
    /\ LET i == wl_tasks[t].idx
       IN IF i > Len(wl_list)
          THEN /\ ~raises
               /\ wl_tasks' = [wl_tasks EXCEPT ![t].pc = "cleanup"]
          ELSE wl_tasks' = [wl_tasks EXCEPT
                              ![t].idx = i + 1,
                              ![t].dead = IF raises THEN Append(@, wl_list[i]) ELSE @]
    /\ UNCHANGED <<wl_list, wl_handlers, wl_failed, wl_removed>>
    /\ UNCHANGED <<now, ticks, proofVars, nodeVars, storeVars, decayVars, wsVars,
                   loopVars, dhtVars, discVars, pureVars, submitVars, staleVars,
                   syncVars, gossipVars, shardVars, queryVars>>

\* The second loop of _broadcast_to_ws_clients, which has no await
BroadcastCleansUp(t) ==
    /\ wl_tasks[t].pc = "cleanup"
    /\ LET r == RemoveDead(wl_list, wl_tasks[t].dead, <<>>)
       IN /\ wl_list' = r.list
          /\ wl_removed' = [c \in LiveConns |->
                              wl_removed[c]
                                 + Cardinality({k \in 1 .. Len(r.removed) :
                                                   r.removed[k] = c})]
          /\ wl_failed' = wl_failed \cup {[by |-> t, conn |-> c] : c \in r.failed}
    /\ wl_tasks' = [wl_tasks EXCEPT ![t] = IdleTask]
    /\ UNCHANGED wl_handlers
    /\ UNCHANGED <<now, ticks, proofVars, nodeVars, storeVars, decayVars, wsVars,
                   loopVars, dhtVars, discVars, pureVars, submitVars, staleVars,
                   syncVars, gossipVars, shardVars, queryVars>>

NextLive ==
    \/ \E c \in LiveConns : WsHandlerStarts(c)
    \/ \E c \in LiveConns : WsHandlerEnds(c)
    \/ \E t \in BroadcastTasks : BroadcastStarts(t)
    \/ \E t \in BroadcastTasks, raises \in BOOLEAN : BroadcastSends(t, raises)
    \/ \E t \in BroadcastTasks : BroadcastCleansUp(t)

\* C37: the live-connection list has no check-then-mutate race: under any
\* interleaving of broadcasts and disconnects no removal from the list
\* fails because the connection is already gone, and no connection is
\* removed more than once.
C37_RemovedExactlyOnce ==
    /\ wl_failed = {}
    /\ \A c \in LiveConns : wl_removed[c] <= 1


(***************************************************************************)
(* The specifications.                                                     *)
(***************************************************************************)
StoreIdle ==
    /\ node_id_int = 0
    /\ local_data = {}
    /\ infrastructure_cache = {}
    /\ peer_addresses = {}
    /\ viewed_shards = {}
    /\ sres = NoResult

DecayIdle ==
    /\ nodes = <<>>
    /\ infra_updates = {}
    /\ dres = NoDecayResult

InitProof ==
    /\ now = StartTime
    /\ ticks = 0
    /\ ProofInit
    /\ NodeInit
    /\ StoreIdle
    /\ DecayIdle
    /\ LoopIdle
    /\ DhtIdle
    /\ DiscIdle
    /\ SubmitIdle
    /\ StaleIdle
    /\ SyncIdle
    /\ GossipIdle
    /\ ShardsIdle
    /\ QueryIdle
    /\ LiveIdle
    /\ BenIdle
    /\ GeoIdle

SpecProof == InitProof /\ [][NextProof]_vars

Init ==
    /\ now = StartTime
    /\ ticks = 0
    /\ ProofInit
    /\ NodeInit
    /\ StoreIdle
    /\ DecayIdle
    /\ LoopIdle
    /\ DhtIdle
    /\ DiscIdle
    /\ SubmitIdle
    /\ StaleIdle
    /\ SyncIdle
    /\ GossipIdle
    /\ ShardsIdle
    /\ QueryIdle
    /\ LiveIdle
    /\ BenIdle
    /\ GeoIdle

Spec == Init /\ [][Next]_vars

SpecGate == Init /\ [][NextGate]_vars

InitStore ==
    /\ now = StartTime
    /\ ticks = 0
    /\ ProofInit
    /\ NodeInit
    /\ StoreInit
    /\ DecayIdle
    /\ LoopIdle
    /\ DhtIdle
    /\ DiscIdle
    /\ SubmitIdle
    /\ StaleIdle
    /\ SyncIdle
    /\ GossipIdle
    /\ ShardsIdle
    /\ QueryIdle
    /\ LiveIdle
    /\ BenIdle
    /\ GeoIdle

SpecStore == InitStore /\ [][NextStore]_vars

InitRouter ==
    /\ now = StartTime
    /\ ticks = 0
    /\ ProofInit
    /\ NodeInit
    /\ RouterInit
    /\ DecayIdle
    /\ LoopIdle
    /\ DhtIdle
    /\ DiscIdle
    /\ SubmitIdle
    /\ StaleIdle
    /\ SyncIdle
    /\ GossipIdle
    /\ ShardsIdle
    /\ QueryIdle
    /\ LiveIdle
    /\ BenIdle
    /\ GeoIdle

SpecRouter == InitRouter /\ [][NextRouter]_vars

InitDecay ==
    /\ now = StartTime
    /\ ticks = 0
    /\ ProofInit
    /\ NodeInit
    /\ StoreIdle
    /\ DecayInit
    /\ LoopIdle
    /\ DhtIdle
    /\ DiscIdle
    /\ SubmitIdle
    /\ StaleIdle
    /\ SyncIdle
    /\ GossipIdle
    /\ ShardsIdle
    /\ QueryIdle
    /\ LiveIdle
    /\ BenIdle
    /\ GeoIdle

SpecDecay == InitDecay /\ [][NextDecay]_vars

SpecMobile == Init /\ [][NextMobile]_vars

SpecWs == Init /\ [][NextWs]_vars

SpecPeer == Init /\ [][NextPeer]_vars

SpecLoops == Init /\ [][NextLoops]_vars /\ LoopFairness

SpecDht == Init /\ [][NextDht]_vars

SpecDisc == Init /\ [][NextDisc]_vars

InitBencode ==
    /\ now = StartTime
    /\ ticks = 0
    /\ ProofInit
    /\ NodeInit
    /\ StoreIdle
    /\ DecayIdle
    /\ LoopIdle
    /\ DhtIdle
    /\ DiscIdle
    /\ SubmitIdle
    /\ StaleIdle
    /\ SyncIdle
    /\ GossipIdle
    /\ ShardsIdle
    /\ QueryIdle
    /\ LiveIdle
    /\ BenInit
    /\ GeoIdle

SpecBencode == InitBencode /\ [][NextBencode]_vars

InitGeo ==
    /\ now = StartTime
    /\ ticks = 0
    /\ ProofInit
    /\ NodeInit
    /\ StoreIdle
    /\ DecayIdle
    /\ LoopIdle
    /\ DhtIdle
    /\ DiscIdle
    /\ SubmitIdle
    /\ StaleIdle
    /\ SyncIdle
    /\ GossipIdle
    /\ ShardsIdle
    /\ QueryIdle
    /\ LiveIdle
    /\ BenIdle
    /\ GeoInit

SpecGeo == InitGeo /\ [][NextGeo]_vars

SpecSubmit == Init /\ [][NextSubmit]_vars

SpecStale == Init /\ [][NextStale]_vars

SpecSync == Init /\ [][NextSync]_vars

SpecReplicate == InitStore /\ [][NextReplicate]_vars

SpecShards == Init /\ [][NextShards]_vars

SpecQuery == Init /\ [][NextQuery]_vars

SpecLive == Init /\ [][NextLive]_vars

SpecCap == Init /\ [][NextCap]_vars

SpecGossip == Init /\ [][NextGossip]_vars /\ GossipFairness

====
